---- MODULE Spec2Model ----
(***************************************************************************)
(* A model of molview: the MolView viewer object (viewer.py), the colour   *)
(* theme resolver (colors.py) and the remote fetch functions (query.py).   *)
(*                                                                         *)
(* Python values are modelled as follows.                                  *)
(*   str        a string, on which lower(), strip(), split(),              *)
(*              startswith(), slicing and int(.., 16) are computed         *)
(*              character by character as Python computes them;            *)
(*   None       the empty tuple <<>>; a value that may be None is <<>>     *)
(*              or <<x>> (a grid cell, a tuple argument: <<>> or itself);  *)
(*   dict       a record with the keys the code can set, an absent key     *)
(*              being <<>> and a present one <<value>>;                    *)
(*   exception  a record [type, msg] holding the class and the message.    *)
(***************************************************************************)
EXTENDS Integers, Sequences, FiniteSets, TLC

\* ------------------------------------------------------------------------
\* Python built-ins on str.  A str is a TLA+ string, that is a sequence of
\* characters: Len, Head, Tail, SubSeq and \o apply to it.
\* ------------------------------------------------------------------------

None == <<>>

Some(x) == <<x>>

Min(a, b) == IF a < b THEN a ELSE b

Max(a, b) == IF a > b THEN a ELSE b

UpperChars == "ABCDEFGHIJKLMNOPQRSTUVWXYZ"

LowerChars == "abcdefghijklmnopqrstuvwxyz"

\* the characters str.strip() removes (those of them the model's texts use)
Whitespace == {" ", "\t", "\n", "\r"}

\* s[i-1:i]
CharAt(s, i) == SubSeq(s, i, i)

\* the index of the first character ch in s, or 0
FirstIndex(s, ch) == IF \E i \in 1..Len(s) : CharAt(s, i) = ch THEN CHOOSE i \in 1..Len(s) : CharAt(s, i) = ch /\ \A j \in 1..(i - 1) : CharAt(s, j) # ch ELSE 0

ToLower == [c \in {CharAt(UpperChars, i) : i \in 1..Len(UpperChars)} |-> CharAt(LowerChars, FirstIndex(UpperChars, c))]

ToUpper == [c \in {CharAt(LowerChars, i) : i \in 1..Len(LowerChars)} |-> CharAt(UpperChars, FirstIndex(LowerChars, c))]

LowerChar(c) == IF c \in DOMAIN ToLower THEN ToLower[c] ELSE c

UpperChar(c) == IF c \in DOMAIN ToUpper THEN ToUpper[c] ELSE c

\* the two halves of a str of two characters or more (the operators that
\* work character by character recurse on the halves)
Left(s) == SubSeq(s, 1, Len(s) \div 2)

Right(s) == SubSeq(s, (Len(s) \div 2) + 1, Len(s))

\* s.lower()
RECURSIVE Lower(_)
Lower(s) == IF \A i \in 1..Len(s) : CharAt(s, i) \notin DOMAIN ToLower THEN s ELSE IF Len(s) = 1 THEN ToLower[s] ELSE Lower(Left(s)) \o Lower(Right(s))

\* s.upper()
RECURSIVE Upper(_)
Upper(s) == IF \A i \in 1..Len(s) : CharAt(s, i) \notin DOMAIN ToUpper THEN s ELSE IF Len(s) = 1 THEN ToUpper[s] ELSE Upper(Left(s)) \o Upper(Right(s))

\* s[:n], for a str or a list
Take(s, n) == SubSeq(s, 1, Min(n, Len(s)))

\* s.startswith(p)
StartsWith(s, p) == Len(p) <= Len(s) /\ SubSeq(s, 1, Len(p)) = p

\* p in s
Contains(s, p) == \E i \in 1..(Len(s) - Len(p) + 1) : SubSeq(s, i, i + Len(p) - 1) = p

\* s.lstrip()
LStrip(s) == IF \A i \in 1..Len(s) : CharAt(s, i) \in Whitespace THEN "" ELSE SubSeq(s, CHOOSE i \in 1..Len(s) : CharAt(s, i) \notin Whitespace /\ \A j \in 1..(i - 1) : CharAt(s, j) \in Whitespace, Len(s))

\* s.rstrip()
RStrip(s) == IF \A i \in 1..Len(s) : CharAt(s, i) \in Whitespace THEN "" ELSE SubSeq(s, 1, CHOOSE i \in 1..Len(s) : CharAt(s, i) \notin Whitespace /\ \A j \in (i + 1)..Len(s) : CharAt(s, j) \in Whitespace)

\* s.strip()
Strip(s) == RStrip(LStrip(s))

\* s.split(sep) for a one-character sep: never empty, "".split(sep) is [""]
RECURSIVE Split(_, _)
Split(s, sep) == IF FirstIndex(s, sep) = 0 THEN <<s>> ELSE <<SubSeq(s, 1, FirstIndex(s, sep) - 1)>> \o Split(SubSeq(s, FirstIndex(s, sep) + 1, Len(s)), sep)

\* s.replace(ch, rep) for a one-character ch
RECURSIVE Replace(_, _, _)
Replace(s, ch, rep) == IF \A i \in 1..Len(s) : CharAt(s, i) # ch THEN s ELSE IF Len(s) = 1 THEN rep ELSE Replace(Left(s), ch, rep) \o Replace(Right(s), ch, rep)

Digits == "0123456789"

RECURSIVE NatToStr(_)
NatToStr(n) == IF n < 10 THEN CharAt(Digits, n + 1) ELSE NatToStr(n \div 10) \o CharAt(Digits, (n % 10) + 1)

\* str(n) for an int
IntToStr(n) == IF n < 0 THEN "-" \o NatToStr(-n) ELSE NatToStr(n)

\* ------------------------------------------------------------------------
\* viewer.py: MolView._detect_format
\* ------------------------------------------------------------------------

\* data.strip().split('\n')[:50]
ScanLimit == 50

\* lines[:20]
PdbScanLimit == 20

pdb_keywords == {"HEADER", "TITLE", "COMPND", "SOURCE", "KEYWDS", "EXPDTA", "AUTHOR", "REVDAT", "REMARK", "SEQRES", "HELIX", "SHEET", "ATOM", "HETATM", "MODEL", "CRYST1", "ORIGX", "SCALE", "MTRIX"}

NonBlank(line) == Strip(line) # ""

\* [line.strip() for line in raw if line.strip()]
StripNonBlank(raw) == [i \in 1..Len(SelectSeq(raw, NonBlank)) |-> Strip(SelectSeq(raw, NonBlank)[i])]

\* a scan of the first 50 lines that are not blank
ScannedNonBlank(data) == Take(StripNonBlank(Split(Strip(data), "\n")), ScanLimit)

\* lines = [line.strip() for line in data.strip().split('\n')[:50] if line.strip()]
ScannedLines(data) == StripNonBlank(Take(Split(Strip(data), "\n"), ScanLimit))

IsCifLine(line) == StartsWith(Lower(line), "loop_") \/ StartsWith(Lower(line), "_atom_site") \/ StartsWith(Lower(line), "_cell")

HasSdfMarker(data) == Contains(Upper(data), "$$$$") \/ Contains(Upper(data), "M  END") \/ Contains(Upper(data), "V2000") \/ Contains(Upper(data), "V3000")

\* record_type = line[:6].strip().upper()
RecordType(line) == Upper(Strip(Take(line, 6)))

\* a detection that looks for the SDF markers before the mmCIF lines
DetectSdfFirst(data, lines) ==
    IF lines = <<>> THEN "pdb"
    ELSE IF HasSdfMarker(data) THEN "sdf"
    ELSE IF StartsWith(Lower(lines[1]), "data_") THEN "mmcif"
    ELSE IF \E i \in 1..Len(lines) : IsCifLine(lines[i]) THEN "mmcif"
    ELSE "pdb"

DetectFromLines(data, lines) ==
    IF lines = <<>> THEN "pdb"
    ELSE IF StartsWith(Lower(lines[1]), "data_") THEN "mmcif"
    ELSE IF \E i \in 1..Len(lines) : IsCifLine(lines[i]) THEN "mmcif"
    ELSE IF HasSdfMarker(data) THEN "sdf"
    ELSE IF \E i \in 1..Min(PdbScanLimit, Len(lines)) : Len(lines[i]) >= 6 /\ RecordType(lines[i]) \in pdb_keywords THEN "pdb"
    ELSE IF \E i \in 1..Len(lines) : Len(lines[i]) >= 4 /\ RecordType(lines[i]) \in {"ATOM", "HETATM"} THEN "pdb"
    ELSE "pdb"

detect_format(data) == DetectFromLines(data, ScannedLines(data))

\* ------------------------------------------------------------------------
\* Results of calls: the value returned, or the exception raised
\* ------------------------------------------------------------------------

Exc(type, msg) == [type |-> type, msg |-> msg]

NoError == Exc("", "")

Ok(v) == [raised |-> NoError, value |-> v]

Raise(e) == [raised |-> e, value |-> None]

IsOk(r) == r.raised = NoError

\* ------------------------------------------------------------------------
\* colors.py
\* ------------------------------------------------------------------------

RAINBOW_PALETTES == ("rainbow" :> <<"#0000FF", "#00FFFF", "#00FF00", "#FFFF00", "#FF8000", "#FF0000">>) @@ ("viridis" :> <<"#440154", "#482878", "#3e4989", "#31688e", "#26828e", "#1f9e89", "#35b779", "#6ece58", "#b5de2b", "#fde724">>) @@ ("plasma" :> <<"#0d0887", "#46039f", "#7201a8", "#9c179e", "#bd3786", "#d8576b", "#ed7953", "#fb9f3a", "#fdca26", "#f0f921">>) @@ ("magma" :> <<"#000004", "#1c1044", "#4f127b", "#812581", "#b5367a", "#e55964", "#fb8861", "#fec287", "#fcfdbf">>) @@ ("blue-red" :> <<"#0000FF", "#FF0000">>) @@ ("pastel" :> <<"#FFB3BA", "#FFDFBA", "#FFFFBA", "#BAFFC9", "#BAE1FF", "#E0BBE4">>)

\* list(RAINBOW_PALETTES.keys())
PaletteKeys == <<"rainbow", "viridis", "plasma", "magma", "blue-red", "pastel">>

SECONDARY_STRUCTURE_COLORS == [helix |-> "#0FA3FF", sheet |-> "#24B235", coil |-> "#E8E8E8"]

DefaultCustomColor == "#4ECDC4"

HexDigits == "0123456789abcdef"

DigitValue == [c \in {CharAt(HexDigits, i) : i \in 1..Len(HexDigits)} |-> FirstIndex(HexDigits, c) - 1]

IsHexDigit(c) == LowerChar(c) \in DOMAIN DigitValue

\* the digits of an int(.., 16) literal: hex digits, single underscores between them
ValidHexBody(b) == b # "" /\ Head(b) # "_" /\ CharAt(b, Len(b)) # "_" /\ ~Contains(b, "__") /\ \A i \in 1..Len(b) : CharAt(b, i) = "_" \/ IsHexDigit(CharAt(b, i))

RECURSIVE HexValue(_, _)
HexValue(b, acc) == IF b = "" THEN acc ELSE IF Head(b) = "_" THEN HexValue(Tail(b), acc) ELSE HexValue(Tail(b), acc * 16 + DigitValue[LowerChar(Head(b))])

\* repr(list of str)
RECURSIVE ReprList(_)
ReprList(l) == IF l = <<>> THEN "" ELSE "'" \o Head(l) \o "'" \o (IF Len(l) > 1 THEN ", " ELSE "") \o ReprList(Tail(l))

\* int(s, 16): surrounding whitespace, a sign and a 0x prefix are accepted
Unsigned(t) == IF t # "" /\ Head(t) \in {"+", "-"} THEN Tail(t) ELSE t

AfterPrefix(v) == IF v # "" /\ Head(v) = "_" THEN Tail(v) ELSE v

Unprefixed(u) == IF Len(u) >= 2 /\ Lower(Take(u, 2)) = "0x" THEN AfterPrefix(SubSeq(u, 3, Len(u))) ELSE u

ParseBase16(s, t, body) ==
    IF ~ValidHexBody(body) THEN Raise(Exc("ValueError", "invalid literal for int() with base 16: '" \o s \o "'"))
    ELSE IF Head(t) = "-" THEN Ok(0 - HexValue(body, 0))
    ELSE Ok(HexValue(body, 0))

IntBase16(s) == ParseBase16(s, Strip(s), Unprefixed(Unsigned(Strip(s))))

\* CustomColorTheme._hex_to_int, SecondaryStructureTheme._hex_to_int
hex_to_int(hex_color) == IntBase16(Replace(hex_color, "#", ""))

\* kwargs of get_color_theme / setColorMode: a key is absent (<<>>) or given (<<v>>)
NoKwargs == [color |-> <<>>, palette |-> <<>>, helix_color |-> <<>>, sheet_color |-> <<>>, coil_color |-> <<>>, custom_colors |-> <<>>]

\* kwargs.get(key, default)
KwGet(entry, default) == IF entry = <<>> THEN default ELSE entry[1]

\* a or b, for a str that may be None
StrOr(entry, default) == IF entry = <<>> \/ entry = <<"">> THEN default ELSE entry[1]

\* the theme objects: the class, ColorTheme.name and the fields the class sets
ThemeObject(cls, name) == [cls |-> cls, name |-> name, color |-> <<>>, custom_colors |-> <<>>, helix_color |-> <<>>, sheet_color |-> <<>>, coil_color |-> <<>>, palette |-> <<>>, colors |-> <<>>]

CustomColorTheme(color) == Ok([ThemeObject("CustomColorTheme", "custom") EXCEPT !.color = <<color>>])

ElementColorTheme == Ok(ThemeObject("ElementColorTheme", "element"))

ResidueColorTheme == Ok(ThemeObject("ResidueColorTheme", "residue"))

\* custom_colors is a dict (a function from chain ids to colours) or None; {} is <<>>
ChainColorTheme(custom_colors) == Ok([ThemeObject("ChainColorTheme", "chain") EXCEPT !.custom_colors = <<KwGet(custom_colors, <<>>)>>])

SecondaryStructureTheme(helix_color, sheet_color, coil_color) == Ok([ThemeObject("SecondaryStructureTheme", "secondary") EXCEPT !.helix_color = <<StrOr(helix_color, SECONDARY_STRUCTURE_COLORS.helix)>>, !.sheet_color = <<StrOr(sheet_color, SECONDARY_STRUCTURE_COLORS.sheet)>>, !.coil_color = <<StrOr(coil_color, SECONDARY_STRUCTURE_COLORS.coil)>>])

\* a RainbowColorTheme that falls back to the default colours
RainbowColorThemeLenient(palette) == Ok([ThemeObject("RainbowColorTheme", "rainbow") EXCEPT !.palette = <<palette>>, !.colors = <<RAINBOW_PALETTES[IF palette \in DOMAIN RAINBOW_PALETTES THEN palette ELSE "rainbow"]>>])

RainbowColorTheme(palette) ==
    IF palette \notin DOMAIN RAINBOW_PALETTES
    THEN Raise(Exc("ValueError", "Unknown palette '" \o palette \o "'. Available: [" \o ReprList(PaletteKeys) \o "]"))
    ELSE Ok([ThemeObject("RainbowColorTheme", "rainbow") EXCEPT !.palette = <<palette>>, !.colors = <<RAINBOW_PALETTES[palette]>>])

PLDDTColorTheme == Ok(ThemeObject("PLDDTColorTheme", "plddt"))

\* get_color_theme without mode.lower()
get_color_theme_exact(mode, kwargs) ==
    LET m == mode
    IN  IF m = "custom" THEN CustomColorTheme(KwGet(kwargs.color, DefaultCustomColor))
        ELSE IF m = "element" THEN ElementColorTheme
        ELSE IF m = "residue" THEN ResidueColorTheme
        ELSE IF m = "chain" THEN ChainColorTheme(kwargs.custom_colors)
        ELSE IF m = "secondary" THEN SecondaryStructureTheme(kwargs.helix_color, kwargs.sheet_color, kwargs.coil_color)
        ELSE IF m = "rainbow" THEN RainbowColorTheme(KwGet(kwargs.palette, "rainbow"))
        ELSE IF m = "plddt" THEN PLDDTColorTheme
        ELSE Raise(Exc("ValueError", "Unknown color mode '" \o m \o "'. Available: custom, element, residue, chain, secondary, rainbow, plddt"))

\* a resolver for which 'uniform' is one more name of the custom theme
get_color_theme_uniform(mode, kwargs) ==
    LET m == Lower(mode)
    IN  IF m \in {"custom", "uniform"} THEN CustomColorTheme(KwGet(kwargs.color, DefaultCustomColor))
        ELSE IF m = "element" THEN ElementColorTheme
        ELSE IF m = "residue" THEN ResidueColorTheme
        ELSE IF m = "chain" THEN ChainColorTheme(kwargs.custom_colors)
        ELSE IF m = "secondary" THEN SecondaryStructureTheme(kwargs.helix_color, kwargs.sheet_color, kwargs.coil_color)
        ELSE IF m = "rainbow" THEN RainbowColorTheme(KwGet(kwargs.palette, "rainbow"))
        ELSE IF m = "plddt" THEN PLDDTColorTheme
        ELSE Raise(Exc("ValueError", "Unknown color mode '" \o m \o "'. Available: custom, element, residue, chain, secondary, rainbow, plddt"))

get_color_theme(mode, kwargs) ==
    LET m == Lower(mode)
    IN  IF m = "custom" THEN CustomColorTheme(KwGet(kwargs.color, DefaultCustomColor))
        ELSE IF m = "element" THEN ElementColorTheme
        ELSE IF m = "residue" THEN ResidueColorTheme
        ELSE IF m = "chain" THEN ChainColorTheme(kwargs.custom_colors)
        ELSE IF m = "secondary" THEN SecondaryStructureTheme(kwargs.helix_color, kwargs.sheet_color, kwargs.coil_color)
        ELSE IF m = "rainbow" THEN RainbowColorTheme(KwGet(kwargs.palette, "rainbow"))
        ELSE IF m = "plddt" THEN PLDDTColorTheme
        ELSE Raise(Exc("ValueError", "Unknown color mode '" \o m \o "'. Available: custom, element, residue, chain, secondary, rainbow, plddt"))

\* the 'params' dict of a Molstar configuration: the keys the themes and
\* setSurface set; 'colors' holds a list, a dict or a nested configuration
\* and is tagged with which
NoParams == [value |-> <<>>, colors |-> <<>>, palette |-> <<>>, saturation |-> <<>>, lightness |-> <<>>, surface_color |-> <<>>]

Config(name, params) == Ok([name |-> name, params |-> params])

CustomConfig(theme) ==
    LET v == hex_to_int(theme.color[1])
    IN  IF ~IsOk(v) THEN v ELSE Config("uniform", [NoParams EXCEPT !.value = <<v.value>>])

ChainConfig(theme) ==
    IF theme.custom_colors[1] # <<>>
    THEN Config("custom-chain-colors", [NoParams EXCEPT !.colors = <<"dict", theme.custom_colors[1]>>])
    ELSE Config("chain-id", NoParams)

SecondaryConfig(theme) ==
    LET h == hex_to_int(theme.helix_color[1])
        s == hex_to_int(theme.sheet_color[1])
        c == hex_to_int(theme.coil_color[1])
    IN  IF ~IsOk(h) THEN h
        ELSE IF ~IsOk(s) THEN s
        ELSE IF ~IsOk(c) THEN c
        ELSE Config("secondary-structure", [NoParams EXCEPT
                !.colors = <<"config", [name |-> "custom", params |-> [alphaHelix |-> h.value, threeTenHelix |-> h.value, piHelix |-> h.value, betaStrand |-> s.value, betaTurn |-> s.value, coil |-> c.value, bend |-> c.value, turn |-> c.value, dna |-> c.value, rna |-> c.value, carbohydrate |-> c.value]]>>,
                !.saturation = <<-1>>, !.lightness = <<0>>])

RainbowConfig(theme) == Config("rainbow-sequence", [NoParams EXCEPT !.palette = <<theme.palette[1]>>, !.colors = <<"list", theme.colors[1]>>])

\* theme.to_molstar_config()
to_molstar_config(theme) ==
    IF theme.cls = "CustomColorTheme" THEN CustomConfig(theme)
    ELSE IF theme.cls = "ElementColorTheme" THEN Config("element-symbol", NoParams)
    ELSE IF theme.cls = "ResidueColorTheme" THEN Config("residue-name", NoParams)
    ELSE IF theme.cls = "ChainColorTheme" THEN ChainConfig(theme)
    ELSE IF theme.cls = "SecondaryStructureTheme" THEN SecondaryConfig(theme)
    ELSE IF theme.cls = "RainbowColorTheme" THEN RainbowConfig(theme)
    ELSE Config("plddt-confidence", NoParams)

\* ------------------------------------------------------------------------
\* viewer.py: the MolView object
\* ------------------------------------------------------------------------

VARIABLES
    width, height, viewergrid, panel,           \* constructor arguments
    rows, cols, total_viewers, grid_models,     \* grid mode: grid_models[row][col] is None or a model
    models, current_model_index,                \* the list of models and the active index
    color_mode, color_params, background_color,
    surface_enabled, surface_opacity, illustrative_enabled,
    spin_enabled, spin_speed,                   \* spin_speed is held in tenths: 0.2 is 2
    show_sequence, show_animation, remove_solvent,
    style_settings,
    last,                                       \* the last call on the viewer: [op, raised, value]
    calls,                                      \* how many calls were made on the viewer
    call, result                                \* a call of a module-level function and its outcome

ctorVars == <<width, height, viewergrid, panel, rows, cols, total_viewers>>

structVars == <<grid_models, models, current_model_index>>

colorVars == <<color_mode, color_params>>

surfaceVars == <<surface_enabled, surface_opacity>>

flagVars == <<background_color, illustrative_enabled, spin_enabled, spin_speed, show_sequence, show_animation, remove_solvent, style_settings>>

configVars == <<colorVars, surfaceVars, flagVars>>

viewerVars == <<ctorVars, structVars, configVars>>

funcVars == <<call, result>>

vars == <<viewerVars, last, calls, funcVars>>

DefaultWidth == 800

DefaultHeight == 600

DefaultSurfaceOpacity == 40

DefaultSpinSpeed == 2

\* what a method returns for chaining
Self == "self"

Returned(op, value) == [op |-> op, raised |-> NoError, value |-> value]

Raised(op, e) == [op |-> op, raised |-> e, value |-> None]

NoCall == [op |-> "__init__", raised |-> NoError, value |-> None]

\* MolView.__init__(width, height, viewergrid, panel), viewergrid None or a pair
ViewerInit(w, h, grid, pnl) ==
    /\ width = w
    /\ height = h
    /\ viewergrid = grid
    /\ panel = pnl
    /\ rows = IF grid = None THEN None ELSE grid[1]
    /\ cols = IF grid = None THEN None ELSE grid[2]
    /\ total_viewers = IF grid = None THEN 1 ELSE grid[1] * grid[2]
    /\ grid_models = IF grid = None THEN None ELSE [r \in 0..(grid[1] - 1) |-> [c \in 0..(grid[2] - 1) |-> None]]
    /\ models = <<>>
    /\ current_model_index = -1
    /\ color_mode = "element"
    /\ color_params = NoParams
    /\ background_color = "#FFFFFF"
    /\ surface_enabled = FALSE
    /\ surface_opacity = DefaultSurfaceOpacity
    /\ illustrative_enabled = FALSE
    /\ spin_enabled = FALSE
    /\ spin_speed = DefaultSpinSpeed
    /\ show_sequence = FALSE
    /\ show_animation = FALSE
    /\ remove_solvent = FALSE
    /\ style_settings = [cartoon |-> TRUE, stick |-> FALSE, sphere |-> FALSE, line |-> FALSE]
    /\ last = NoCall

\* the cells of the grid, and those holding a model
Cells == (0..(rows - 1)) \X (0..(cols - 1))

Occupied == {p \in Cells : grid_models[p[1]][p[2]] # None}

\* row-major order of two cells
RowMajorLeq(p, q) == p[1] < q[1] \/ (p[1] = q[1] /\ p[2] <= q[2])

GridSizeStr == IntToStr(rows) \o "x" \o IntToStr(cols)

\* _get_next_available_cell scanning column by column
get_next_available_cell_by_column ==
    IF Cells \ Occupied = {}
    THEN Raise(Exc("ValueError", "Grid is full (" \o GridSizeStr \o ")"))
    ELSE Ok(CHOOSE p \in Cells \ Occupied : \A q \in Cells \ Occupied : RowMajorLeq(<<p[2], p[1]>>, <<q[2], q[1]>>))

\* MolView._get_next_available_cell
get_next_available_cell ==
    IF Cells \ Occupied = {}
    THEN Raise(Exc("ValueError", "Grid is full (" \o GridSizeStr \o ")"))
    ELSE Ok(CHOOSE p \in Cells \ Occupied : \A q \in Cells \ Occupied : RowMajorLeq(p, q))

\* the normalization without format.lower()
NormalizeFormatExact(data, format) ==
    LET f == IF format = None THEN detect_format(data) ELSE format[1]
    IN  IF f \in {"cif", "mmcif"} THEN Ok("mmcif")
        ELSE IF f \notin {"pdb", "sdf"} THEN Raise(Exc("ValueError", "Unsupported format '" \o f \o "'. Use 'pdb', 'mmcif', or 'sdf'"))
        ELSE Ok(f)

\* addModel: the format, detected when None, lowered and normalized
NormalizeFormat(data, format) ==
    LET f == Lower(IF format = None THEN detect_format(data) ELSE format[1])
    IN  IF f \in {"cif", "mmcif"} THEN Ok("mmcif")
        ELSE IF f \notin {"pdb", "sdf"} THEN Raise(Exc("ValueError", "Unsupported format '" \o f \o "'. Use 'pdb', 'mmcif', or 'sdf'"))
        ELSE Ok(f)

Model(data, format, keepH, name) == [data |-> data, format |-> format, keepH |-> keepH, name |-> name]

\* a default name that counts the models whether or not the cell is given
GridNameCounted(viewer, name) == IF name # None THEN name[1] ELSE "Structure " \o IntToStr(Cardinality(Occupied) + 1)

\* addModel, grid mode: the default name
GridName(viewer, name) ==
    IF name # None THEN name[1]
    ELSE IF viewer = None THEN "Structure " \o IntToStr(Cardinality(Occupied) + 1)
    ELSE "Structure (" \o IntToStr(viewer[1]) \o "," \o IntToStr(viewer[2]) \o ")"

\* l[i] for a list of length n: a negative i counts from the end
IndexOk(i, n) == 0 - n <= i /\ i < n

PyIndex(i, n) == IF i < 0 THEN i + n ELSE i

\* the bounds check without its lower bounds
InBoundsAbove(cell) == cell[1] < rows /\ cell[2] < cols

\* 0 <= row < self.rows and 0 <= col < self.cols
InBounds(cell) == 0 <= cell[1] /\ cell[1] < rows /\ 0 <= cell[2] /\ cell[2] < cols

\* addModel, grid mode: the cell, given or auto-assigned, and the bounds check
GridTarget(viewer) ==
    LET cell == IF viewer = None THEN get_next_available_cell ELSE Ok(viewer)
    IN  IF ~IsOk(cell) THEN cell
        ELSE IF ~InBounds(cell.value) THEN Raise(Exc("ValueError", "viewer position (" \o IntToStr(cell.value[1]) \o ", " \o IntToStr(cell.value[2]) \o ") out of bounds for " \o GridSizeStr \o " grid"))
        ELSE cell

AddModelGrid(data, fmt, keepH, viewer, name) ==
    LET model == Model(data, fmt, keepH, GridName(viewer, name))
        target == GridTarget(viewer)
    IN  IF ~IsOk(target)
        THEN last' = Raised("addModel", target.raised) /\ UNCHANGED grid_models
        ELSE IF ~IndexOk(target.value[1], rows) \/ ~IndexOk(target.value[2], cols)
        THEN last' = Raised("addModel", Exc("IndexError", "list index out of range")) /\ UNCHANGED grid_models
        ELSE /\ grid_models' = [grid_models EXCEPT ![PyIndex(target.value[1], rows)][PyIndex(target.value[2], cols)] = model]
             /\ last' = Returned("addModel", Self)

\* the number of models a linear viewer holds is capped at MaxModels
MaxModels == 2

\* an addModel that puts the model in front of the list
AddModelLinearFront(data, fmt, keepH, name) ==
    /\ Len(models) < MaxModels
    /\ models' = <<Model(data, fmt, keepH, IF name # None THEN name[1] ELSE "Structure " \o IntToStr(Len(models) + 1))>> \o models
    /\ current_model_index' = Len(models') - 1
    /\ last' = Returned("addModel", Self)

AddModelLinear(data, fmt, keepH, name) ==
    /\ Len(models) < MaxModels
    /\ models' = Append(models, Model(data, fmt, keepH, IF name # None THEN name[1] ELSE "Structure " \o IntToStr(Len(models) + 1)))
    /\ current_model_index' = Len(models') - 1
    /\ last' = Returned("addModel", Self)

\* MolView.addModel(data, format, keepH, viewer, name); format, name: <<>> or <<str>>
AddModel(data, format, keepH, viewer, name) ==
    LET fmt == NormalizeFormat(data, format)
    IN  /\ IF ~IsOk(fmt) THEN last' = Raised("addModel", fmt.raised) /\ UNCHANGED structVars
           ELSE IF viewergrid # None THEN AddModelGrid(data, fmt.value, keepH, viewer, name) /\ UNCHANGED <<models, current_model_index>>
           ELSE AddModelLinear(data, fmt.value, keepH, name) /\ UNCHANGED grid_models
        /\ UNCHANGED <<ctorVars, configVars, funcVars>>

\* MolView.setStyle(style): style is None or a dict, given by its set of keys
SetStyle(style) ==
    /\ style_settings' = IF style = None THEN style_settings
                         ELSE [k \in DOMAIN style_settings |-> IF k \in style[1] \cap {"cartoon", "stick", "sphere"} THEN TRUE ELSE style_settings[k]]
    /\ last' = Returned("setStyle", Self)
    /\ UNCHANGED <<ctorVars, structVars, colorVars, surfaceVars, background_color, illustrative_enabled, spin_enabled, spin_speed, show_sequence, show_animation, remove_solvent, funcVars>>

\* a setColorMode that stores the mode before it converts the theme
SetColorModeEager(mode, kwargs) ==
    LET theme == get_color_theme(mode, kwargs)
        config == IF IsOk(theme) THEN to_molstar_config(theme.value) ELSE theme
    IN  /\ IF ~IsOk(theme) THEN last' = Raised("setColorMode", theme.raised) /\ UNCHANGED colorVars
           ELSE IF ~IsOk(config) THEN last' = Raised("setColorMode", config.raised) /\ color_mode' = theme.value.name /\ UNCHANGED color_params
           ELSE /\ color_mode' = config.value.name
                /\ color_params' = config.value.params
                /\ last' = Returned("setColorMode", Self)
        /\ UNCHANGED <<ctorVars, structVars, surfaceVars, flagVars, funcVars>>

\* a setColorMode that leaves the conversion of the colours to the render: it stores the mode and returns
SetColorModeDeferred(mode, kwargs) ==
    LET theme == get_color_theme(mode, kwargs)
        config == IF IsOk(theme) THEN to_molstar_config(theme.value) ELSE theme
    IN  /\ IF ~IsOk(theme) THEN last' = Raised("setColorMode", theme.raised) /\ UNCHANGED colorVars
           ELSE IF ~IsOk(config) THEN last' = Returned("setColorMode", Self) /\ color_mode' = theme.value.name /\ UNCHANGED color_params
           ELSE /\ color_mode' = config.value.name
                /\ color_params' = config.value.params
                /\ last' = Returned("setColorMode", Self)
        /\ UNCHANGED <<ctorVars, structVars, surfaceVars, flagVars, funcVars>>

\* MolView.setColorMode(mode, **kwargs)
SetColorMode(mode, kwargs) ==
    LET theme == get_color_theme(mode, kwargs)
        config == IF IsOk(theme) THEN to_molstar_config(theme.value) ELSE theme
    IN  /\ IF ~IsOk(config) THEN last' = Raised("setColorMode", config.raised) /\ UNCHANGED colorVars
           ELSE /\ color_mode' = config.value.name
                /\ color_params' = config.value.params
                /\ last' = Returned("setColorMode", Self)
        /\ UNCHANGED <<ctorVars, structVars, surfaceVars, flagVars, funcVars>>

\* MolView.setBackgroundColor(color)
SetBackgroundColor(color) ==
    /\ background_color' = color
    /\ last' = Returned("setBackgroundColor", Self)
    /\ UNCHANGED <<ctorVars, structVars, colorVars, surfaceVars, illustrative_enabled, spin_enabled, spin_speed, show_sequence, show_animation, remove_solvent, style_settings, funcVars>>

\* the clamp without its lower limit
ClampOpacityAbove(opacity) == Min(100, opacity)

\* max(0, min(100, opacity))
ClampOpacity(opacity) == Max(0, Min(100, opacity))

\* a setSurface for which inheriting the colour of the theme removes the stored surface colour
SurfaceUpdateInherit(enabled, opacity, inherit_color, color) ==
    /\ surface_enabled' = enabled
    /\ surface_opacity' = ClampOpacity(opacity)
    /\ color_params' = IF ~inherit_color /\ color # None /\ color # <<"">> THEN [color_params EXCEPT !.surface_color = color]
                       ELSE IF inherit_color THEN [color_params EXCEPT !.surface_color = None]
                       ELSE color_params
    /\ UNCHANGED <<color_mode, ctorVars, structVars, flagVars, funcVars>>

\* setSurface: what it does to the fields; color is <<>> or <<str>>
SurfaceUpdate(enabled, opacity, inherit_color, color) ==
    /\ surface_enabled' = enabled
    /\ surface_opacity' = ClampOpacity(opacity)
    /\ color_params' = IF ~inherit_color /\ color # None /\ color # <<"">> THEN [color_params EXCEPT !.surface_color = color] ELSE color_params
    /\ UNCHANGED <<color_mode, ctorVars, structVars, flagVars, funcVars>>

\* MolView.setSurface(enabled, opacity, inherit_color, color)
SetSurface(enabled, opacity, inherit_color, color) ==
    /\ SurfaceUpdate(enabled, opacity, inherit_color, color)
    /\ last' = Returned("setSurface", Self)

\* MolView.addSurface(surf_type, style, sel): self.setSurface(True)
AddSurface ==
    /\ SurfaceUpdate(TRUE, DefaultSurfaceOpacity, TRUE, None)
    /\ last' = Returned("addSurface", Self)

\* MolView.setIllustrativeStyle(enabled)
SetIllustrativeStyle(enabled) ==
    /\ illustrative_enabled' = enabled
    /\ last' = Returned("setIllustrativeStyle", Self)
    /\ UNCHANGED <<ctorVars, structVars, colorVars, surfaceVars, background_color, spin_enabled, spin_speed, show_sequence, show_animation, remove_solvent, style_settings, funcVars>>

\* MolView.setLayout(mode)
SetLayout(mode) ==
    /\ last' = IF mode \notin {"single", "grid"} THEN Raised("setLayout", Exc("ValueError", "mode must be 'single' or 'grid'")) ELSE Returned("setLayout", Self)
    /\ UNCHANGED <<viewerVars, funcVars>>

\* MolView.zoomTo(sel), MolView.setViewStyle(style), MolView.addLabel(text, options, sel)
NoOp(op) ==
    /\ op \in {"zoomTo", "setViewStyle", "addLabel"}
    /\ last' = Returned(op, Self)
    /\ UNCHANGED <<viewerVars, funcVars>>

\* MolView.spin(enabled, speed)
Spin(enabled, speed) ==
    /\ spin_enabled' = enabled
    /\ spin_speed' = speed
    /\ last' = Returned("spin", Self)
    /\ UNCHANGED <<ctorVars, structVars, colorVars, surfaceVars, background_color, illustrative_enabled, show_sequence, show_animation, remove_solvent, style_settings, funcVars>>

\* MolView.removeSolvent(enabled)
RemoveSolvent(enabled) ==
    /\ remove_solvent' = enabled
    /\ last' = Returned("removeSolvent", Self)
    /\ UNCHANGED <<ctorVars, structVars, colorVars, surfaceVars, background_color, illustrative_enabled, spin_enabled, spin_speed, show_sequence, show_animation, style_settings, funcVars>>

\* a clear that empties the grid as well
ClearUpdateGrid ==
    /\ models' = <<>>
    /\ current_model_index' = -1
    /\ grid_models' = IF grid_models = None THEN None ELSE [r \in DOMAIN grid_models |-> [c \in DOMAIN grid_models[r] |-> None]]
    /\ UNCHANGED <<ctorVars, configVars, funcVars>>

ClearUpdate ==
    /\ models' = <<>>
    /\ current_model_index' = -1
    /\ UNCHANGED <<grid_models, ctorVars, configVars, funcVars>>

\* MolView.clear()
Clear == ClearUpdate /\ last' = Returned("clear", Self)

\* MolView.removeAllModels(): return self.clear()
RemoveAllModels == ClearUpdate /\ last' = Returned("removeAllModels", Self)

\* MolView.getModel(model_id)
GetModel(model_id) ==
    /\ last' = Returned("getModel", IF 0 <= model_id /\ model_id < Len(models) THEN models[model_id + 1] ELSE None)
    /\ UNCHANGED <<viewerVars, funcVars>>

\* ------------------------------------------------------------------------
\* viewer.py: HTML generation.  The generated document is the template with
\* its placeholders replaced; it is modelled by the record of the text
\* substituted for each placeholder.
\* ------------------------------------------------------------------------

RECURSIVE Join(_, _)
Join(l, sep) == IF l = <<>> THEN "" ELSE IF Len(l) = 1 THEN Head(l) ELSE Head(l) \o sep \o Join(Tail(l), sep)

\* bool_to_js(val)
bool_to_js(val) == IF val THEN "true" ELSE "false"

\* str(x) for a float held in tenths
TenthsToStr(t) == IntToStr(t \div 10) \o "." \o IntToStr(t % 10)

\* json.dumps of a str (of the characters the model's texts use)
JsonStr(s) == "\"" \o Replace(Replace(Replace(Replace(Replace(s, "\\", "\\\\"), "\"", "\\\""), "\n", "\\n"), "\r", "\\r"), "\t", "\\t") \o "\""

JsonList(items) == "[" \o Join(items, ", ") \o "]"

JsonDict(items) == "{" \o Join(items, ", ") \o "}"

JsonItem(key, text) == JsonStr(key) \o ": " \o text

\* json.dumps of a dict of str held as a sequence of <<key, value>>
JsonStrDict(d) == JsonDict([i \in 1..Len(d) |-> JsonItem(d[i][1], JsonStr(d[i][2]))])

SecondaryKeys == <<"alphaHelix", "threeTenHelix", "piHelix", "betaStrand", "betaTurn", "coil", "bend", "turn", "dna", "rna", "carbohydrate">>

\* json.dumps of params['colors']
JsonColors(colors) ==
    IF colors[1] = "list" THEN JsonList([i \in 1..Len(colors[2]) |-> JsonStr(colors[2][i])])
    ELSE IF colors[1] = "dict" THEN JsonStrDict(colors[2])
    ELSE JsonDict(<<JsonItem("name", JsonStr(colors[2].name)), JsonItem("params", JsonDict([i \in 1..Len(SecondaryKeys) |-> JsonItem(SecondaryKeys[i], IntToStr(colors[2].params[SecondaryKeys[i]]))]))>>)

\* json.dumps(self.color_params): the keys in the order the code inserts them
JsonParams(params) ==
    JsonDict(   (IF params.value = <<>> THEN <<>> ELSE <<JsonItem("value", IntToStr(params.value[1]))>>)
             \o (IF params.palette = <<>> THEN <<>> ELSE <<JsonItem("palette", JsonStr(params.palette[1]))>>)
             \o (IF params.colors = <<>> THEN <<>> ELSE <<JsonItem("colors", JsonColors(params.colors))>>)
             \o (IF params.saturation = <<>> THEN <<>> ELSE <<JsonItem("saturation", IntToStr(params.saturation[1]))>>)
             \o (IF params.lightness = <<>> THEN <<>> ELSE <<JsonItem("lightness", IntToStr(params.lightness[1]))>>)
             \o (IF params.surface_color = <<>> THEN <<>> ELSE <<JsonItem("surface_color", JsonStr(params.surface_color[1]))>>))

\* model['data'] escaped for a JavaScript string, in the code's order
EscapeJs(data) == Replace(Replace(Replace(Replace(data, "\\", "\\\\"), "\"", "\\\""), "\n", "\\n"), "\r", "\\r")

\* the entries of all_models
JsonModel(m) == JsonDict(<<JsonItem("name", JsonStr(m.name)), JsonItem("data", JsonStr(m.data)), JsonItem("format", JsonStr(m.format))>>)

\* the entries of grid_data
JsonCell(cell) == IF cell = None THEN "null" ELSE JsonDict(<<JsonItem("data", JsonStr(cell.data)), JsonItem("format", JsonStr(cell.format)), JsonItem("name", JsonStr(cell.name))>>)

\* the placeholders both modes fill from the configuration
ConfigPayload ==
    [height |-> IntToStr(height), width |-> IntToStr(width),
     color_mode |-> color_mode, color_params |-> JsonParams(color_params),
     background_color |-> background_color,
     surface_enabled |-> bool_to_js(surface_enabled), surface_opacity |-> IntToStr(surface_opacity),
     illustrative_enabled |-> bool_to_js(illustrative_enabled),
     spin_enabled |-> bool_to_js(spin_enabled), spin_speed |-> TenthsToStr(spin_speed),
     remove_solvent |-> bool_to_js(remove_solvent)]

HasCurrent == current_model_index >= 0 /\ current_model_index < Len(models)

\* MolView._generate_single_html
generate_single_html ==
    [k \in DOMAIN ConfigPayload \cup {"panel_enabled", "show_sequence", "show_animation", "structure_data", "structure_format", "is_grid_mode", "rows", "cols", "grid_data", "all_models"} |->
        CASE k = "panel_enabled" -> bool_to_js(panel)
          [] k = "show_sequence" -> bool_to_js(show_sequence)
          [] k = "show_animation" -> bool_to_js(show_animation)
          [] k = "structure_data" -> IF HasCurrent THEN EscapeJs(models[current_model_index + 1].data) ELSE ""
          [] k = "structure_format" -> IF HasCurrent THEN models[current_model_index + 1].format ELSE "pdb"
          [] k = "is_grid_mode" -> "false"
          [] k = "rows" -> "1"
          [] k = "cols" -> "1"
          [] k = "grid_data" -> "[[]]"
          [] k = "all_models" -> JsonList([i \in 1..Len(models) |-> JsonModel(models[i])])
          [] OTHER -> ConfigPayload[k]]

\* MolView._generate_grid_html
generate_grid_html ==
    [k \in DOMAIN ConfigPayload \cup {"panel_enabled", "show_sequence", "show_animation", "structure_data", "structure_format", "is_grid_mode", "rows", "cols", "grid_data", "all_models"} |->
        CASE k = "panel_enabled" -> "false"
          [] k = "show_sequence" -> "false"
          [] k = "show_animation" -> "false"
          [] k = "structure_data" -> ""
          [] k = "structure_format" -> "pdb"
          [] k = "is_grid_mode" -> "true"
          [] k = "rows" -> IntToStr(rows)
          [] k = "cols" -> IntToStr(cols)
          [] k = "grid_data" -> JsonList([r \in 1..rows |-> JsonList([c \in 1..cols |-> JsonCell(grid_models[r - 1][c - 1])])])
          [] k = "all_models" -> "[]"
          [] OTHER -> ConfigPayload[k]]

\* a render that ignores the grid
generate_html_single == generate_single_html

\* MolView._generate_html
generate_html == IF viewergrid # None THEN generate_grid_html ELSE generate_single_html

\* a render that drops the models it has rendered
GenerateHtmlClearing ==
    /\ ClearUpdate
    /\ last' = Returned("_generate_html", generate_html)

GenerateHtml ==
    /\ last' = Returned("_generate_html", generate_html)
    /\ UNCHANGED <<viewerVars, funcVars>>

\* html.escape(s)
HtmlEscape(s) == Replace(Replace(Replace(Replace(Replace(s, "&", "&amp;"), "<", "&lt;"), ">", "&gt;"), "\"", "&quot;"), "'", "&#x27;")

\* MolView._wrap_in_iframe(html_content), viewer_id being the fresh uuid
wrap_in_iframe(html_content, viewer_id) ==
    [id |-> "molview-" \o viewer_id,
     width |-> IntToStr(width + (IF panel \/ viewergrid # None THEN 280 ELSE 0)),
     height |-> IntToStr(height),
     srcdoc |-> [k \in DOMAIN html_content |-> HtmlEscape(html_content[k])]]

\* uuid.uuid4().hex[:8]
Uuids == {"0a1b2c3d", "4e5f6a7b"}

\* MolView._repr_html_()
ReprHtml ==
    /\ \E id \in Uuids : last' = Returned("_repr_html_", wrap_in_iframe(generate_html, id))
    /\ UNCHANGED <<viewerVars, funcVars>>

\* MolView.show() and MolView.render(): the frame is displayed, None is returned
Show(op) ==
    /\ op \in {"show", "render"}
    /\ last' = Returned(op, None)
    /\ UNCHANGED <<viewerVars, funcVars>>

\* ------------------------------------------------------------------------
\* Spec: one viewer, linear or grid, and every method called on it
\* ------------------------------------------------------------------------

\* test_example.py, sample_pdb (its first two records and END)
SamplePdb == "ATOM      1  N   ALA A   1\nATOM      2  CA  ALA A   1\nEND"

SampleCif == "data_1UBQ\nloop_\n_atom_site.id"

With(kwargs, key, value) == [kwargs EXCEPT ![key] = <<value>>]

ViewerGrids == {None, <<1, 2>>}

\* addModel(data, format, viewer, name)
AddModelCalls == {<<SampleCif, None, None, None>>, <<SampleCif, <<"xyz">>, None, None>>, <<SampleCif, None, <<0, 1>>, None>>, <<SampleCif, None, <<0, 2>>, None>>}

Styles == {None, <<{"stick"}>>}

ColorCalls == {<<"Custom", With(NoKwargs, "color", "#FF0000")>>, <<"rainbow", With(NoKwargs, "palette", "viridis")>>, <<"rainbow", With(NoKwargs, "palette", "nonexistent")>>, <<"custom", With(NoKwargs, "color", "#GG0000")>>}

BackgroundColors == {"#000000"}

\* setSurface(enabled, opacity, inherit_color, color)
SurfaceCalls == {<<TRUE, 150, TRUE, None>>, <<TRUE, -10, FALSE, <<"#00FF00">>>>, <<FALSE, 40, TRUE, None>>}

SpinCalls == {<<TRUE, 10>>, <<FALSE, 2>>}

LayoutModes == {"grid", "tabs"}

ModelIds == {-1, 0}

\* the length of the call sequences explored on one viewer
MaxCalls == 3

Init ==
    /\ \E grid \in ViewerGrids, pnl \in BOOLEAN : ViewerInit(DefaultWidth, DefaultHeight, grid, pnl)
    /\ calls = 0
    /\ call = None
    /\ result = None

\* one more call on the viewer
Counted == calls < MaxCalls /\ calls' = calls + 1

Next ==
    \/ Counted /\ \E c \in AddModelCalls : AddModel(c[1], c[2], FALSE, c[3], c[4])
    \/ Counted /\ \E st \in Styles : SetStyle(st)
    \/ Counted /\ \E cc \in ColorCalls : SetColorMode(cc[1], cc[2])
    \/ Counted /\ \E c \in BackgroundColors : SetBackgroundColor(c)
    \/ Counted /\ \E c \in SurfaceCalls : SetSurface(c[1], c[2], c[3], c[4])
    \/ Counted /\ AddSurface
    \/ Counted /\ \E e \in BOOLEAN : SetIllustrativeStyle(e)
    \/ Counted /\ \E m \in LayoutModes : SetLayout(m)
    \/ Counted /\ \E op \in {"zoomTo", "setViewStyle", "addLabel"} : NoOp(op)
    \/ Counted /\ \E sp \in SpinCalls : Spin(sp[1], sp[2])
    \/ Counted /\ \E e \in BOOLEAN : RemoveSolvent(e)
    \/ Counted /\ Clear
    \/ Counted /\ RemoveAllModels
    \/ Counted /\ \E i \in ModelIds : GetModel(i)
    \/ Counted /\ GenerateHtml
    \/ Counted /\ ReprHtml
    \/ Counted /\ \E op \in {"show", "render"} : Show(op)

Spec == Init /\ [][Next]_vars

C4_Inv == surface_opacity \in 0..100

C4_Stores == \A c \in SurfaceCalls : last'.op = "setSurface" /\ SetSurface(c[1], c[2], c[3], c[4]) => surface_opacity' = Min(100, Max(0, c[2])) /\ (c[2] = 150 => surface_opacity' = 100) /\ (c[2] = -10 => surface_opacity' = 0)

C4_Others == surface_opacity' # surface_opacity => last'.op \in {"setSurface", "addSurface"}

\* C4: the stored surface opacity is always in [0,100]; setSurface(opacity=o)
\* stores min(100, max(0, o)), so 150 stores 100 and -10 stores 0; only
\* setSurface and addSurface change it.
C4_Opacity == []C4_Inv /\ [][C4_Stores /\ C4_Others]_vars

C4_Witness == surface_opacity = 0 /\ surface_enabled /\ last.op = "setSurface" /\ calls = 2

RenderOps == {"_generate_html", "_repr_html_", "show", "render"}

C5_Pure == last'.op \in RenderOps => UNCHANGED viewerVars

C5_Repeat ==
    /\ last.op = "_generate_html" /\ last'.op = "_generate_html" => last'.value = last.value
    /\ last.op = "_repr_html_" /\ last'.op = "_repr_html_" => last'.value.srcdoc = last.value.srcdoc

C5_Opacity == (0 :> "0") @@ (40 :> "40") @@ (100 :> "100")

C5_Bool == [b \in BOOLEAN |-> IF b THEN "true" ELSE "false"]

C5_Config(payload) ==
    /\ payload.color_mode = color_mode
    /\ payload.background_color = background_color
    /\ payload.surface_enabled = C5_Bool[surface_enabled]
    /\ payload.surface_opacity = C5_Opacity[surface_opacity]
    /\ payload.illustrative_enabled = C5_Bool[illustrative_enabled]
    /\ payload.spin_enabled = C5_Bool[spin_enabled]
    /\ payload.remove_solvent = C5_Bool[remove_solvent]
    /\ Contains(payload.color_params, "surface_color") <=> color_params.surface_color # None

C5_Structure(payload) ==
    IF viewergrid = None
    THEN /\ payload.is_grid_mode = "false"
         /\ payload.all_models = "[]" <=> models = <<>>
         /\ models # <<>> => payload.structure_format = models[current_model_index + 1].format
    ELSE /\ payload.is_grid_mode = "true"
         /\ Contains(payload.grid_data, "null") <=> Occupied # Cells
         /\ Contains(payload.grid_data, "mmcif") <=> Occupied # {}

C5_Reflects ==
    /\ last.op = "_generate_html" => C5_Config(last.value) /\ C5_Structure(last.value)
    /\ last.op = "_repr_html_" => C5_Config(last.value.srcdoc) /\ C5_Structure(last.value.srcdoc)

\* C5: a render (_generate_html, _repr_html_, show, render) changes no field
\* of the viewer, in linear and in grid mode; two consecutive renders give
\* the same payload (the frame's fresh id excepted); and the payload of a
\* render shows the state the viewer is in, mutations before it included.
C5_Render == []C5_Reflects /\ [][C5_Pure /\ C5_Repeat]_vars

C5_Witness == last.op = "_generate_html" /\ calls = 3 /\ Len(models) = 1 /\ color_mode = "uniform" /\ last.value.color_mode = "uniform" /\ last.value.all_models # "[]"

\* ------------------------------------------------------------------------
\* SpecGrid: a grid viewer of every shape up to MaxRows x MaxCols, and
\* addModel with every placement in and around the grid
\* ------------------------------------------------------------------------

MaxRows == 2

MaxCols == 2

GridPlacements == {None} \cup {<<r, c>> : r \in -1..MaxRows, c \in -1..MaxCols}

GridModel == Model(SamplePdb, "pdb", FALSE, "A")

\* v.addModel(SamplePdb, format='pdb', viewer=placement, name='A')
AddToGrid(placement) == AddModel(SamplePdb, <<"pdb">>, FALSE, placement, <<"A">>)

InitGrid ==
    /\ \E r \in 1..MaxRows, c \in 1..MaxCols : ViewerInit(DefaultWidth, DefaultHeight, <<r, c>>, FALSE)
    /\ calls = 0
    /\ call = None
    /\ result = None

NextGrid ==
    \/ UNCHANGED calls /\ \E v \in GridPlacements : AddToGrid(v)
    \/ UNCHANGED calls /\ Clear
    \/ UNCHANGED calls /\ RemoveAllModels

SpecGrid == InitGrid /\ [][NextGrid]_vars

\* the position of a cell in row-major order, and the first k cells in that order
RowMajorIndex(p) == p[1] * cols + p[2]

FirstCells(k) == {p \in Cells : RowMajorIndex(p) < k}

C1_Fills(p) ==
    /\ grid_models[p[1]][p[2]] = None
    /\ \A q \in Cells : RowMajorIndex(q) < RowMajorIndex(p) => grid_models[q[1]][q[2]] # None
    /\ grid_models' = [grid_models EXCEPT ![p[1]][p[2]] = GridModel]
    /\ last'.raised = NoError

C1_Full ==
    /\ grid_models' = grid_models
    /\ last'.raised.type = "ValueError"
    /\ StartsWith(last'.raised.msg, "Grid is full")

C1_InOrder == \A k \in 0..(rows * cols - 1) : Occupied = FirstCells(k) => Occupied' = FirstCells(k + 1)

\* C1: in a grid viewer addModel without a placement stores the structure in
\* the first empty cell in row-major order (every cell before it is
\* occupied), so that from the empty grid the cells are filled (0,0), (0,1),
\* ... in that order; when all rows*cols cells are occupied it fails with
\* 'Grid is full' and leaves the grid unchanged.
C1_AutoPlacement == [][last'.op = "addModel" /\ AddToGrid(None) => IF Occupied = Cells THEN C1_Full ELSE C1_InOrder /\ \E p \in Cells : C1_Fills(p)]_vars

C1_Witness == rows = 2 /\ cols = 2 /\ Occupied = Cells /\ last.raised.msg = "Grid is full (2x2)"

C2_Inv ==
    /\ viewergrid = <<rows, cols>>
    /\ DOMAIN grid_models = 0..(rows - 1)
    /\ \A r \in DOMAIN grid_models : DOMAIN grid_models[r] = 0..(cols - 1)

C2_Outside(v) == ~(0 <= v[1] /\ v[1] < rows /\ 0 <= v[2] /\ v[2] < cols)

C2_Rejected ==
    /\ grid_models' = grid_models
    /\ last'.raised.type = "ValueError"
    /\ Contains(last'.raised.msg, "out of bounds")

C2_Step == UNCHANGED <<viewergrid, rows, cols>> /\ (C2_Rejected \/ \A v \in GridPlacements \ {None} : C2_Outside(v) => ~(last'.op = "addModel" /\ AddToGrid(v)))

\* C2: a grid viewer keeps the dimensions it was constructed with and every
\* cell of its grid, occupied or not, has coordinates in [0,rows) x [0,cols);
\* addModel with an explicit placement outside that range, negative
\* indices included, fails with an out-of-bounds ValueError and stores nothing.
C2_GridBounds == []C2_Inv /\ [][C2_Step]_vars

C2_Witness == Occupied # {} /\ last.raised.msg = "viewer position (-1, 0) out of bounds for 2x2 grid"

\* ------------------------------------------------------------------------
\* SpecFormats: a linear viewer and a 1x2 grid viewer, and addModel with the
\* format omitted, given in several spellings, or unsupported
\* ------------------------------------------------------------------------

PdbText == "ATOM      1"

CifText == "data_1UBQ"

SdfText == "M  END\n$$$$"

\* addModel(data, format=...)
FormatCalls == {<<PdbText, None>>, <<CifText, None>>, <<SdfText, None>>, <<PdbText, <<"pdb">>>>, <<PdbText, <<"CIF">>>>, <<PdbText, <<"mmCIF">>>>, <<PdbText, <<"Sdf">>>>, <<PdbText, <<"xyz">>>>, <<PdbText, <<"">>>>}

FormatPlacements == {None, <<0, 1>>, <<1, 0>>}

InitFormats ==
    /\ \E grid \in {None, <<1, 2>>} : ViewerInit(DefaultWidth, DefaultHeight, grid, FALSE)
    /\ calls = 0
    /\ call = None
    /\ result = None

NextFormats ==
    \/ UNCHANGED calls /\ \E c \in FormatCalls, v \in FormatPlacements : AddModel(c[1], c[2], FALSE, v, <<"A">>)
    \/ UNCHANGED calls /\ Clear
    \/ UNCHANGED calls /\ RemoveAllModels

SpecFormats == InitFormats /\ [][NextFormats]_vars

StoredFormats == {"pdb", "mmcif", "sdf"}

\* the format each spelling stands for; "" for none
C3_Named == ("pdb" :> "pdb") @@ ("CIF" :> "mmcif") @@ ("mmCIF" :> "mmcif") @@ ("Sdf" :> "sdf") @@ ("xyz" :> "") @@ ("" :> "")

C3_Expected(c) == IF c[2] = None THEN detect_format(c[1]) ELSE C3_Named[c[2][1]]

C3_Stores(m) ==
    IF viewergrid = None
    THEN models' = Append(models, m) /\ grid_models' = grid_models
    ELSE models' = models /\ \E p \in Cells : grid_models' = [grid_models EXCEPT ![p[1]][p[2]] = m]

C3_Rejected ==
    /\ UNCHANGED structVars
    /\ last'.raised.type = "ValueError"
    /\ StartsWith(last'.raised.msg, "Unsupported format")

C3_Accepted(c) ==
    /\ C3_Expected(c) \in StoredFormats
    /\ ~StartsWith(last'.raised.msg, "Unsupported format")
    /\ viewergrid = None => last'.raised = NoError
    /\ IF last'.raised = NoError THEN C3_Stores(Model(c[1], C3_Expected(c), FALSE, "A")) ELSE UNCHANGED structVars

C3_Step == \A c \in FormatCalls, v \in FormatPlacements : last'.op = "addModel" /\ AddModel(c[1], c[2], FALSE, v, <<"A">>) => IF C3_Expected(c) = "" THEN C3_Rejected ELSE C3_Accepted(c)

C3_Inv ==
    /\ \A i \in 1..Len(models) : models[i].format \in StoredFormats
    /\ viewergrid # None => \A p \in Occupied : grid_models[p[1]][p[2]].format \in StoredFormats

\* C3: addModel stores the detected format when none is given, takes the
\* format name case-insensitively, stores 'cif' and 'mmcif' as 'mmcif', and
\* rejects every name other than pdb, cif, mmcif, sdf with a ValueError that
\* stores nothing; every stored structure, in the list or in a grid cell,
\* has a format in {pdb, mmcif, sdf}.
C3_Formats == []C3_Inv /\ [][C3_Step]_vars

C3_Witness == Len(models) = 2 /\ models[1].format = "mmcif" /\ models[1].data = PdbText /\ models[2] = Model(SdfText, "sdf", FALSE, "A") /\ last.raised.msg = "Unsupported format 'xyz'. Use 'pdb', 'mmcif', or 'sdf'"

\* ------------------------------------------------------------------------
\* SpecTheme: get_color_theme called with mode names in several spellings
\* and every kind of keyword argument, and to_molstar_config on its result
\* ------------------------------------------------------------------------

ThemeModes == {"custom", "Custom", "element", "ELEMENT", "residue", "Residue", "chain", "CHAIN", "secondary", "Secondary", "rainbow", "RainBow", "plddt", "pLDDT", "uniform", "element-symbol", "spectrum", "", " chain"}

ChainColors == <<<<"A", "#FF0000">>, <<"B", "#0000FF">>>>

ThemeKwargs == {NoKwargs, With(NoKwargs, "color", "#FF0000"), With(NoKwargs, "color", "#GG0000"), With(NoKwargs, "palette", "viridis"), With(NoKwargs, "palette", "nonexistent"), With(NoKwargs, "custom_colors", ChainColors), With(NoKwargs, "custom_colors", <<>>), With(NoKwargs, "helix_color", "#FF0000"), With(NoKwargs, "coil_color", "red")}

\* theme = get_color_theme(mode, **kwargs)
GetColorTheme(mode, kwargs) ==
    /\ call' = [fn |-> "get_color_theme", mode |-> mode, kwargs |-> kwargs]
    /\ result' = get_color_theme(mode, kwargs)
    /\ UNCHANGED <<viewerVars, last, calls>>

\* theme.to_molstar_config(), theme being what get_color_theme returned
ToMolstarConfig ==
    /\ call # None /\ call.fn = "get_color_theme" /\ IsOk(result)
    /\ call' = [call EXCEPT !.fn = "to_molstar_config"]
    /\ result' = to_molstar_config(result.value)
    /\ UNCHANGED <<viewerVars, last, calls>>

InitTheme ==
    /\ ViewerInit(DefaultWidth, DefaultHeight, None, FALSE)
    /\ calls = 0
    /\ call = None
    /\ result = None

NextTheme ==
    \/ \E mode \in ThemeModes, kwargs \in ThemeKwargs : GetColorTheme(mode, kwargs)
    \/ ToMolstarConfig

SpecTheme == InitTheme /\ [][NextTheme]_vars

\* the mode each spelling names; "" for none
C6_Mode ==
    [m \in ThemeModes |->
        CASE m \in {"custom", "Custom"} -> "custom"
          [] m \in {"element", "ELEMENT"} -> "element"
          [] m \in {"residue", "Residue"} -> "residue"
          [] m \in {"chain", "CHAIN"} -> "chain"
          [] m \in {"secondary", "Secondary"} -> "secondary"
          [] m \in {"rainbow", "RainBow"} -> "rainbow"
          [] m \in {"plddt", "pLDDT"} -> "plddt"
          [] OTHER -> ""]

C6_Tag(mode, kwargs) ==
    CASE mode = "custom" -> "uniform"
      [] mode = "element" -> "element-symbol"
      [] mode = "residue" -> "residue-name"
      [] mode = "chain" -> IF kwargs.custom_colors = <<ChainColors>> THEN "custom-chain-colors" ELSE "chain-id"
      [] mode = "secondary" -> "secondary-structure"
      [] mode = "rainbow" -> "rainbow-sequence"
      [] mode = "plddt" -> "plddt-confidence"

C6_UnknownMode == ~IsOk(result) /\ result.raised.type = "ValueError" /\ StartsWith(result.raised.msg, "Unknown color mode")

\* the keyword arguments the mode reads are well-formed
C6_ValidArguments(mode, kwargs) ==
    /\ mode = "custom" => kwargs.color # <<"#GG0000">>
    /\ mode = "secondary" => kwargs.coil_color # <<"red">>
    /\ mode = "rainbow" => kwargs.palette # <<"nonexistent">>

C6_Theme ==
    IF C6_Mode[call.mode] = "" THEN C6_UnknownMode
    ELSE /\ ~StartsWith(result.raised.msg, "Unknown color mode")
         /\ C6_ValidArguments(C6_Mode[call.mode], call.kwargs) => IsOk(result)
         /\ IsOk(result) => result.value.name = C6_Mode[call.mode]

C6_Config ==
    /\ C6_ValidArguments(C6_Mode[call.mode], call.kwargs) => IsOk(result)
    /\ IsOk(result) => result.value.name = C6_Tag(C6_Mode[call.mode], call.kwargs)

\* C6: get_color_theme accepts, whatever the case of the letters, exactly the
\* names custom, element, residue, chain, secondary, rainbow, plddt and
\* raises ValueError 'Unknown color mode' for every other name; given
\* well-formed arguments it returns the theme of that name, whose
\* configuration is tagged uniform, element-symbol, residue-name, chain-id
\* (custom-chain-colors with a non-empty chain mapping), secondary-structure,
\* rainbow-sequence, plddt-confidence.
C6_Resolver == call # None => IF call.fn = "get_color_theme" THEN C6_Theme ELSE C6_Config

C6_Witness == call # None /\ call.fn = "to_molstar_config" /\ call.mode = "CHAIN" /\ IsOk(result) /\ result.value.name = "custom-chain-colors"

\* ------------------------------------------------------------------------
\* SpecColors: the colour state of one viewer under setColorMode with
\* accepted and rejected arguments, setSurface and render, and
\* get_color_theme called directly with palette names
\* ------------------------------------------------------------------------

ColorModeCalls == {<<"element", NoKwargs>>, <<"Custom", With(NoKwargs, "color", "#FF0000")>>, <<"custom", With(NoKwargs, "color", "#GG0000")>>, <<"rainbow", With(NoKwargs, "palette", "viridis")>>, <<"rainbow", NoKwargs>>, <<"rainbow", With(NoKwargs, "palette", "nonexistent")>>, <<"rainbow", With(NoKwargs, "palette", "Viridis")>>, <<"uniform", NoKwargs>>, <<"chain", With(NoKwargs, "custom_colors", ChainColors)>>, <<"secondary", NoKwargs>>, <<"secondary", With(NoKwargs, "coil_color", "red")>>, <<"plddt", NoKwargs>>}

PaletteArguments == {None, <<"viridis">>, <<"pastel">>, <<"nonexistent">>, <<"Viridis">>, <<"">>}

ColorSurfaceCalls == {<<TRUE, 40, FALSE, <<"#00FF00">>>>, <<TRUE, 40, TRUE, <<"#00FF00">>>>}

InitColors ==
    /\ ViewerInit(DefaultWidth, DefaultHeight, None, FALSE)
    /\ calls = 0
    /\ call = None
    /\ result = None

NextColors ==
    \/ UNCHANGED calls /\ \E cc \in ColorModeCalls : SetColorMode(cc[1], cc[2])
    \/ UNCHANGED calls /\ \E c \in ColorSurfaceCalls : SetSurface(c[1], c[2], c[3], c[4])
    \/ UNCHANGED calls /\ GenerateHtml
    \/ \E palette \in PaletteArguments : GetColorTheme("rainbow", [NoKwargs EXCEPT !.palette = palette])

SpecColors == InitColors /\ [][NextColors]_vars

\* the names of the registry
C7_Registry == {"rainbow", "viridis", "plasma", "magma", "blue-red", "pastel"}

C7_Rejected(raised) == raised.type = "ValueError" /\ StartsWith(raised.msg, "Unknown palette")

C7_Palette(argument) == IF argument = None THEN "rainbow" ELSE argument[1]

C7_Theme ==
    call # None =>
        IF C7_Palette(call.kwargs.palette) \in C7_Registry
        THEN /\ IsOk(result)
             /\ result.value.colors = <<RAINBOW_PALETTES[C7_Palette(call.kwargs.palette)]>>
             /\ call.kwargs.palette = <<"viridis">> => Len(result.value.colors[1]) = 10
        ELSE C7_Rejected(result.raised)

C7_Viewer ==
    /\ color_mode = "rainbow-sequence" => color_params.palette[1] \in C7_Registry /\ color_params.colors = <<"list", RAINBOW_PALETTES[color_params.palette[1]]>>
    /\ last.op = "_generate_html" => last.raised = NoError

C7_Step == \A cc \in ColorModeCalls : cc[1] = "rainbow" /\ C7_Palette(cc[2].palette) \notin C7_Registry /\ last'.op = "setColorMode" /\ SetColorMode(cc[1], cc[2]) => C7_Rejected(last'.raised) /\ UNCHANGED colorVars

\* C7: a rainbow theme exists only for a palette name of the registry:
\* get_color_theme and setColorMode raise ValueError 'Unknown palette' for
\* any other name, at the call, leaving the viewer's colours as they were
\* (a render never raises it); for a name of the registry the theme's
\* colours are the registry's entry, ten colours for 'viridis'.
C7_Palettes == [](C7_Theme /\ C7_Viewer) /\ [][C7_Step]_vars

C7_Witness == color_mode = "rainbow-sequence" /\ color_params.palette = <<"viridis">> /\ Len(color_params.colors[2]) = 10 /\ last.op = "setColorMode" /\ StartsWith(last.raised.msg, "Unknown palette 'nonexistent'")

\* the keys of the parameters are those of the configuration named mode
C9_Together(mode, params) ==
    /\ params.surface_color = None
    /\ params.value # None <=> mode = "uniform"
    /\ params.palette # None <=> mode = "rainbow-sequence"
    /\ params.saturation # None <=> mode = "secondary-structure"
    /\ params.lightness # None <=> mode = "secondary-structure"
    /\ params.colors # None <=> mode \in {"rainbow-sequence", "secondary-structure", "custom-chain-colors"}
    /\ mode = "rainbow-sequence" => params.colors[1] = "list"
    /\ mode = "secondary-structure" => params.colors[1] = "config"
    /\ mode = "custom-chain-colors" => params.colors[1] = "dict"

\* the calls that fail: an unknown mode, an unknown palette, a malformed colour
C9_Failing == {<<"custom", With(NoKwargs, "color", "#GG0000")>>, <<"rainbow", With(NoKwargs, "palette", "nonexistent")>>, <<"rainbow", With(NoKwargs, "palette", "Viridis")>>, <<"uniform", NoKwargs>>, <<"secondary", With(NoKwargs, "coil_color", "red")>>}

C9_Step ==
    /\ last'.op = "setColorMode" => IF last'.raised = NoError THEN C9_Together(color_mode', color_params') ELSE UNCHANGED colorVars
    /\ \A cc \in ColorModeCalls : last'.op = "setColorMode" /\ SetColorMode(cc[1], cc[2]) => (last'.raised # NoError <=> cc \in C9_Failing)

\* C9: a setColorMode that succeeds replaces the theme identifier and the
\* whole parameter object together (the parameters are those of the new
\* theme and nothing else); one that fails, for an unknown mode, an unknown
\* palette or a malformed colour, leaves both as they were.
C9_Atomic == [][C9_Step]_vars

C9_Witness == color_mode = "rainbow-sequence" /\ color_params.surface_color = <<"#00FF00">> /\ last.op = "setColorMode" /\ StartsWith(last.raised.msg, "invalid literal for int() with base 16: 'GG0000'")

\* ------------------------------------------------------------------------
\* SpecDetect: _detect_format applied to texts made of a few lines, and to
\* texts whose last line comes after ScanLimit other lines
\* ------------------------------------------------------------------------

MaxLines == 3

DetectLines == {"", "data_1UBQ", "  LOOP_", "_cell.length_a 1", "_atom_site.id", "M  END", "$$$$", "  1 0  0 v2000", "ATOM      1", "HEADER    HYDROLASE", "hello"}

RECURSIVE LinesUpTo(_)
LinesUpTo(n) == IF n = 0 THEN {<<>>} ELSE LinesUpTo(n - 1) \cup {Append(l, x) : l \in LinesUpTo(n - 1), x \in DetectLines}

Padding(n) == [i \in 1..n |-> "x"]

\* texts of more than ScanLimit lines, with and without a blank first line
LongTexts == {Padding(ScanLimit) \o <<x>> : x \in DetectLines} \cup {<<"">> \o Padding(ScanLimit - 1) \o <<x>> : x \in DetectLines} \cup {Padding(ScanLimit - 1) \o <<x>> : x \in DetectLines}

DetectTexts == LinesUpTo(MaxLines) \cup LongTexts

\* viewer._detect_format(data), data being the lines joined by "\n"
DetectFormat ==
    /\ result = None
    /\ result' = Ok(detect_format(call.data))
    /\ UNCHANGED <<viewerVars, last, calls, call>>

InitDetect ==
    /\ ViewerInit(DefaultWidth, DefaultHeight, None, FALSE)
    /\ calls = 0
    /\ call \in {[fn |-> "_detect_format", lines |-> lines, data |-> Join(lines, "\n")] : lines \in DetectTexts}
    /\ result = None

NextDetect == DetectFormat

SpecDetect == InitDetect /\ [][NextDetect]_vars

\* the index of the first non-blank line, 0 when there is none
C8_FirstLine(l) == IF \E i \in 1..Len(l) : NonBlank(l[i]) THEN CHOOSE i \in 1..Len(l) : NonBlank(l[i]) /\ \A j \in 1..(i - 1) : ~NonBlank(l[j]) ELSE 0

\* the scanned lines: those of the first ScanLimit lines from the first non-blank one on
C8_Scanned(l) == IF C8_FirstLine(l) = 0 THEN {} ELSE {Lower(Strip(l[i])) : i \in C8_FirstLine(l)..Min(Len(l), C8_FirstLine(l) + ScanLimit - 1)}

C8_Cif(l) ==
    \/ C8_FirstLine(l) # 0 /\ StartsWith(Lower(Strip(l[C8_FirstLine(l)])), "data_")
    \/ \E line \in C8_Scanned(l) : \E p \in {"loop_", "_atom_site", "_cell"} : StartsWith(line, p)

C8_Sdf(l) == \E i \in 1..Len(l) : \E m \in {"$$$$", "M  END", "V2000", "V3000"} : Contains(Upper(l[i]), m)

C8_Expected(l) == IF C8_Cif(l) THEN "mmcif" ELSE IF C8_Sdf(l) THEN "sdf" ELSE "pdb"

\* C8: detection returns a format for every text: mmcif when the first
\* non-blank line starts with 'data_' or a scanned line starts with 'loop_',
\* '_atom_site' or '_cell' (whatever else the text holds), otherwise sdf when
\* the text contains '$$$$', 'M  END', 'V2000' or 'V3000', otherwise pdb
\* (letter case ignored throughout).
C8_Precedence == result # None => IsOk(result) /\ result.value \in {"pdb", "mmcif", "sdf"} /\ result.value = C8_Expected(call.lines)

C8_Witness == result # None /\ call.lines = <<"ATOM      1", "M  END", "  LOOP_">> /\ result.value = "mmcif"

\* ------------------------------------------------------------------------
\* query.py: fetch_pdb, query, fetch_alphafold
\* ------------------------------------------------------------------------

\* the characters of the bytes 32 to 95, and of the bytes 97 to 126
PrintableLow == " !\"#$%&'()*+,-./0123456789:;<=>?@ABCDEFGHIJKLMNOPQRSTUVWXYZ[\\]^_"

PrintableHigh == "abcdefghijklmnopqrstuvwxyz{|}~"

\* the character of an ASCII byte (a line feed, or a printable one other than 96)
Chr(b) == IF b = 10 THEN "\n" ELSE IF b < 96 THEN CharAt(PrintableLow, b - 31) ELSE CharAt(PrintableHigh, b - 96)

RECURSIVE DecodeAscii(_)
DecodeAscii(bytes) == IF bytes = <<>> THEN "" ELSE IF Len(bytes) = 1 THEN Chr(bytes[1]) ELSE DecodeAscii(Left(bytes)) \o DecodeAscii(Right(bytes))

\* bytes.decode('utf-8'), for ASCII bytes and the byte 0xff, which no UTF-8 text holds
Utf8Decode(bytes) ==
    IF \E i \in 1..Len(bytes) : bytes[i] > 127
    THEN Raise(Exc("UnicodeDecodeError", "'utf-8' codec can't decode byte 0xff in position " \o IntToStr((CHOOSE i \in 1..Len(bytes) : bytes[i] > 127 /\ \A j \in 1..(i - 1) : bytes[j] <= 127) - 1) \o ": invalid start byte"))
    ELSE Ok(DecodeAscii(bytes))

\* what urllib.request.urlopen(url) does: it answers, or raises
Response(body) == [kind |-> "response", code |-> 200, body |-> body, error |-> NoError]

HTTPError(code, msg) == [kind |-> "HTTPError", code |-> code, body |-> <<>>, error |-> Exc("HTTPError", "HTTP Error " \o IntToStr(code) \o ": " \o msg)]

URLError(reason) == [kind |-> "URLError", code |-> 0, body |-> <<>>, error |-> Exc("URLError", "<urlopen error " \o reason \o ">")]

NoRequest == [kind |-> "none", code |-> 0, body |-> <<>>, error |-> NoError]

\* a handler that lets every HTTPError through
ReadResponseRaw(o, notfound) == IF o.kind = "response" THEN Utf8Decode(o.body) ELSE Raise(o.error)

\* try: response.read().decode('utf-8') / except HTTPError: 404 -> ValueError, else raise
ReadResponse(o, notfound) ==
    IF o.kind = "response" THEN Utf8Decode(o.body)
    ELSE IF o.kind = "HTTPError" /\ o.code = 404 THEN Raise(Exc("ValueError", notfound))
    ELSE Raise(o.error)

PdbFormats == {"pdb", "mmcif", "cif"}

PdbUrl(pdb_id, format) == "https://files.rcsb.org/download/" \o pdb_id \o (IF format = "pdb" THEN ".pdb" ELSE ".cif")

\* fetch_pdb(pdb_id, format), o being what urlopen does
fetch_pdb(pdb_id, format, o) ==
    IF Lower(format) \notin PdbFormats THEN Raise(Exc("ValueError", "Format must be 'pdb' or 'mmcif', got '" \o Lower(format) \o "'"))
    ELSE ReadResponse(o, "PDB ID '" \o Upper(Strip(pdb_id)) \o "' not found in RCSB PDB database")

\* query(pdb_id, format): return fetch_pdb(pdb_id, format)
query(pdb_id, format, o) == fetch_pdb(pdb_id, format, o)

AlphafoldUrl(uniprot_id, version) == "https://alphafold.ebi.ac.uk/files/AF-" \o uniprot_id \o "-F1-model_v" \o IntToStr(version) \o ".cif"

\* fetch_alphafold(uniprot_id, version), o being what urlopen does
fetch_alphafold(uniprot_id, version, o) == ReadResponse(o, "UniProt ID '" \o Upper(Strip(uniprot_id)) \o "' not found in AlphaFold DB (version " \o IntToStr(version) \o ")")

\* ------------------------------------------------------------------------
\* SpecFetch: the fetches, against a server that answers with a body or
\* with an HTTP error, or that cannot be reached
\* ------------------------------------------------------------------------

Bodies == {<<>>, <<65, 84, 79, 77, 32, 49, 10>>, <<100, 97, 116, 97, 95, 49, 85, 66, 81>>, <<72, 255>>}

Outcomes == {Response(body) : body \in Bodies} \cup {HTTPError(404, "Not Found"), HTTPError(403, "Forbidden"), HTTPError(500, "Internal Server Error"), URLError("[Errno -2] Name or service not known")}

PdbIds == {"1UBQ", " 7bv2 ", "XXXX"}

FetchFormats == {"pdb", "mmCIF", "cif", "xyz"}

UniprotIds == {" p00520 ", "Q9Y6K9"}

Versions == {4, 3}

\* the call, the request it makes when the format is accepted, and its outcome
PdbCall(fn, pdb_id, format, o) ==
    [fn |-> fn, id |-> pdb_id, format |-> <<format>>, version |-> None,
     url |-> IF Lower(format) \in PdbFormats THEN <<PdbUrl(Upper(Strip(pdb_id)), IF Lower(format) = "cif" THEN "mmcif" ELSE Lower(format))>> ELSE None,
     outcome |-> IF Lower(format) \in PdbFormats THEN o ELSE NoRequest]

\* fetch_pdb(pdb_id, format)
FetchPdb(pdb_id, format) ==
    \E o \in Outcomes :
        /\ call' = PdbCall("fetch_pdb", pdb_id, format, o)
        /\ result' = fetch_pdb(pdb_id, format, o)
        /\ UNCHANGED <<viewerVars, last, calls>>

\* query(pdb_id, format)
Query(pdb_id, format) ==
    \E o \in Outcomes :
        /\ call' = PdbCall("query", pdb_id, format, o)
        /\ result' = query(pdb_id, format, o)
        /\ UNCHANGED <<viewerVars, last, calls>>

\* fetch_alphafold(uniprot_id, version)
FetchAlphafold(uniprot_id, version) ==
    \E o \in Outcomes :
        /\ call' = [fn |-> "fetch_alphafold", id |-> uniprot_id, format |-> None, version |-> <<version>>,
                    url |-> <<AlphafoldUrl(Upper(Strip(uniprot_id)), version)>>, outcome |-> o]
        /\ result' = fetch_alphafold(uniprot_id, version, o)
        /\ UNCHANGED <<viewerVars, last, calls>>

InitFetch ==
    /\ ViewerInit(DefaultWidth, DefaultHeight, None, FALSE)
    /\ calls = 0
    /\ call = None
    /\ result = None

NextFetch ==
    \/ \E pdb_id \in PdbIds, format \in FetchFormats : FetchPdb(pdb_id, format)
    \/ \E pdb_id \in PdbIds, format \in FetchFormats : Query(pdb_id, format)
    \/ \E uniprot_id \in UniprotIds, version \in Versions : FetchAlphafold(uniprot_id, version)

SpecFetch == InitFetch /\ [][NextFetch]_vars

\* the identifier each id argument stands for
C10_Identifier == (" 7bv2 " :> "7BV2") @@ (" p00520 " :> "P00520") @@ [id \in {"1UBQ", "XXXX", "Q9Y6K9"} |-> id]

\* the text of each decodable body
C10_Text == (<<>> :> "") @@ (<<65, 84, 79, 77, 32, 49, 10>> :> "ATOM 1\n") @@ (<<100, 97, 116, 97, 95, 49, 85, 66, 81>> :> "data_1UBQ")

C10_NotFound == call.outcome.kind = "HTTPError" /\ call.outcome.code = 404 => result.raised.type = "ValueError" /\ Contains(result.raised.msg, "'" \o C10_Identifier[call.id] \o "' not found")

C10_Propagates == call.outcome.kind = "URLError" \/ (call.outcome.kind = "HTTPError" /\ call.outcome.code # 404) => result.raised = call.outcome.error /\ result.raised.type = call.outcome.kind

C10_Success == call.outcome.kind = "response" /\ call.outcome.body \in DOMAIN C10_Text => result = Ok(C10_Text[call.outcome.body])

JNull == [t |-> "NoneType", v |-> <<>>]

JBool(b) == [t |-> "bool", v |-> <<b>>]

JNum(n) == [t |-> "int", v |-> <<n>>]

JStr(s) == [t |-> "str", v |-> <<s>>]

\* a list of values
JArr(items) == [t |-> "list", v |-> items]

\* a dict, as the sequence of its <<key, value>> in insertion order
JObj(members) == [t |-> "dict", v |-> members]

JsonWs == {" ", "\n", "\t", "\r"}

\* the first index from i on that holds no whitespace, Len(s) + 1 when there is none
SkipWs(s, i) == IF \E j \in i..Len(s) : CharAt(s, j) \notin JsonWs THEN CHOOSE j \in i..Len(s) : CharAt(s, j) \notin JsonWs /\ \A k \in i..(j - 1) : CharAt(s, k) \in JsonWs ELSE Len(s) + 1

Parsed(val, pos) == [ok |-> TRUE, val |-> val, pos |-> pos, what |-> ""]

\* JSONDecodeError(what, s, pos - 1)
ParseFail(what, pos) == [ok |-> FALSE, val |-> JNull, pos |-> pos, what |-> what]

\* the index of the quote that closes the string opened at i, 0 when there is none
StringEnd(s, i) == IF \E j \in (i + 1)..Len(s) : CharAt(s, j) = "\"" THEN CHOOSE j \in (i + 1)..Len(s) : CharAt(s, j) = "\"" /\ \A k \in (i + 1)..(j - 1) : CharAt(s, k) # "\"" ELSE 0

ParseString(s, i) == IF StringEnd(s, i) = 0 THEN ParseFail("Unterminated string starting at", i) ELSE Parsed(JStr(SubSeq(s, i + 1, StringEnd(s, i) - 1)), StringEnd(s, i) + 1)

IsDigit(c) == \E k \in 1..Len(Digits) : CharAt(Digits, k) = c

\* the index after the digits that start at i
DigitsEnd(s, i) == IF \E j \in i..Len(s) : ~IsDigit(CharAt(s, j)) THEN CHOOSE j \in i..Len(s) : ~IsDigit(CharAt(s, j)) /\ \A k \in i..(j - 1) : IsDigit(CharAt(s, k)) ELSE Len(s) + 1

RECURSIVE DecValue(_, _)
DecValue(b, acc) == IF b = "" THEN acc ELSE DecValue(Tail(b), acc * 10 + DigitValue[Head(b)])

\* an integer: an optional minus sign and digits
ParseNumber(s, i, first) ==
    IF DigitsEnd(s, first) = first THEN ParseFail("Expecting value", i)
    ELSE Parsed(JNum((IF first = i THEN 1 ELSE -1) * DecValue(SubSeq(s, first, DigitsEnd(s, first) - 1), 0)), DigitsEnd(s, first))

ParseLiteral(s, i) ==
    IF SubSeq(s, i, Min(Len(s), i + 3)) = "null" THEN Parsed(JNull, i + 4)
    ELSE IF SubSeq(s, i, Min(Len(s), i + 3)) = "true" THEN Parsed(JBool(TRUE), i + 4)
    ELSE IF SubSeq(s, i, Min(Len(s), i + 4)) = "false" THEN Parsed(JBool(FALSE), i + 5)
    ELSE ParseFail("Expecting value", i)

RECURSIVE ParseValue(_, _), ParseItems(_, _, _), ParseMembers(_, _, _)

\* after an item of an array: a comma and the next item, or the closing bracket
AfterItemAt(s, j, acc) ==
    IF j <= Len(s) /\ CharAt(s, j) = "," THEN ParseItems(s, SkipWs(s, j + 1), acc)
    ELSE IF j <= Len(s) /\ CharAt(s, j) = "]" THEN Parsed(JArr(acc), j + 1)
    ELSE ParseFail("Expecting ',' delimiter", j)

AfterItem(s, r, acc) == IF ~r.ok THEN r ELSE AfterItemAt(s, SkipWs(s, r.pos), Append(acc, r.val))

ParseItems(s, i, acc) == AfterItem(s, ParseValue(s, i), acc)

ParseArray(s, i) == IF i <= Len(s) /\ CharAt(s, i) = "]" THEN Parsed(JArr(<<>>), i + 1) ELSE ParseItems(s, i, <<>>)

\* after a member of an object: a comma and the next member, or the closing brace
AfterMemberAt(s, j, acc) ==
    IF j <= Len(s) /\ CharAt(s, j) = "," THEN ParseMembers(s, SkipWs(s, j + 1), acc)
    ELSE IF j <= Len(s) /\ CharAt(s, j) = "}" THEN Parsed(JObj(acc), j + 1)
    ELSE ParseFail("Expecting ',' delimiter", j)

AfterMemberValue(s, key, r, acc) == IF ~r.ok THEN r ELSE AfterMemberAt(s, SkipWs(s, r.pos), Append(acc, <<key.val.v[1], r.val>>))

AfterColon(s, key, j, acc) == IF j > Len(s) \/ CharAt(s, j) # ":" THEN ParseFail("Expecting ':' delimiter", j) ELSE AfterMemberValue(s, key, ParseValue(s, SkipWs(s, j + 1)), acc)

AfterKey(s, key, acc) == IF ~key.ok THEN key ELSE AfterColon(s, key, SkipWs(s, key.pos), acc)

ParseMembers(s, i, acc) == IF i > Len(s) \/ CharAt(s, i) # "\"" THEN ParseFail("Expecting property name enclosed in double quotes", i) ELSE AfterKey(s, ParseString(s, i), acc)

ParseObject(s, i) == IF i <= Len(s) /\ CharAt(s, i) = "}" THEN Parsed(JObj(<<>>), i + 1) ELSE ParseMembers(s, i, <<>>)

ParseValue(s, i) ==
    IF i > Len(s) THEN ParseFail("Expecting value", i)
    ELSE IF CharAt(s, i) = "\"" THEN ParseString(s, i)
    ELSE IF CharAt(s, i) = "[" THEN ParseArray(s, SkipWs(s, i + 1))
    ELSE IF CharAt(s, i) = "{" THEN ParseObject(s, SkipWs(s, i + 1))
    ELSE IF CharAt(s, i) = "-" THEN ParseNumber(s, i, i + 1)
    ELSE IF IsDigit(CharAt(s, i)) THEN ParseNumber(s, i, i)
    ELSE ParseLiteral(s, i)

\* the line and the column of index pos
LineOf(s, pos) == 1 + Cardinality({k \in 1..(pos - 1) : CharAt(s, k) = "\n"})

ColumnOf(s, pos) == pos - (IF \E k \in 1..(pos - 1) : CharAt(s, k) = "\n" THEN CHOOSE k \in 1..(pos - 1) : CharAt(s, k) = "\n" /\ \A m \in (k + 1)..(pos - 1) : CharAt(s, m) # "\n" ELSE 0)

JSONDecodeError(s, what, pos) == Exc("JSONDecodeError", what \o ": line " \o IntToStr(LineOf(s, pos)) \o " column " \o IntToStr(ColumnOf(s, pos)) \o " (char " \o IntToStr(pos - 1) \o ")")

LoadsResult(s, r) ==
    IF ~r.ok THEN Raise(JSONDecodeError(s, r.what, r.pos))
    ELSE IF SkipWs(s, r.pos) <= Len(s) THEN Raise(JSONDecodeError(s, "Extra data", SkipWs(s, r.pos)))
    ELSE Ok(r.val)

\* json.loads(s)
json_loads(s) == LoadsResult(s, ParseValue(s, SkipWs(s, 1)))

\* bool(v)
Truthy(v) ==
    IF v.t = "NoneType" THEN FALSE
    ELSE IF v.t = "bool" THEN v.v[1]
    ELSE IF v.t = "int" THEN v.v[1] # 0
    ELSE IF v.t = "str" THEN v.v[1] # ""
    ELSE Len(v.v) > 0

HasKey(members, key) == \E i \in 1..Len(members) : members[i][1] = key

\* the value of the last member with the key
DictGet(members, key) == members[CHOOSE i \in 1..Len(members) : members[i][1] = key /\ \A j \in (i + 1)..Len(members) : members[j][1] # key][2]

\* key in v, key being a str
InValue(key, v) ==
    IF v.t = "dict" THEN Ok(HasKey(v.v, key))
    ELSE IF v.t = "list" THEN Ok(\E i \in 1..Len(v.v) : v.v[i].t = "str" /\ v.v[i].v[1] = key)
    ELSE IF v.t = "str" THEN Ok(Contains(v.v[1], key))
    ELSE Raise(Exc("TypeError", "argument of type '" \o v.t \o "' is not iterable"))

\* v[key], key being a str
Subscript(v, key) ==
    IF v.t = "dict" THEN (IF HasKey(v.v, key) THEN Ok(DictGet(v.v, key)) ELSE Raise(Exc("KeyError", "'" \o key \o "'")))
    ELSE IF v.t = "list" THEN Raise(Exc("TypeError", "list indices must be integers or slices, not str"))
    ELSE IF v.t = "str" THEN Raise(Exc("TypeError", "string indices must be integers, not 'str'"))
    ELSE Raise(Exc("TypeError", "'" \o v.t \o "' object is not subscriptable"))

\* what a for loop over v visits
Iterate(v) ==
    IF v.t = "list" THEN Ok(v.v)
    ELSE IF v.t = "dict" THEN Ok([i \in 1..Len(v.v) |-> JStr(v.v[i][1])])
    ELSE IF v.t = "str" THEN Ok([i \in 1..Len(v.v[1]) |-> JStr(CharAt(v.v[1], i))])
    ELSE Raise(Exc("TypeError", "'" \o v.t \o "' object is not iterable"))

\* [entry['identifier'] for entry in entries]: the first entry that fails ends it
IdentifiersOf(entries) ==
    IF \E i \in 1..Len(entries) : ~IsOk(Subscript(entries[i], "identifier"))
    THEN Subscript(entries[CHOOSE i \in 1..Len(entries) : ~IsOk(Subscript(entries[i], "identifier")) /\ \A j \in 1..(i - 1) : IsOk(Subscript(entries[j], "identifier"))], "identifier")
    ELSE Ok([i \in 1..Len(entries) |-> Subscript(entries[i], "identifier").value])

FromEntries(entries) == IF ~IsOk(entries) THEN entries ELSE IdentifiersOf(entries.value)

FromResultSet(rs) == IF ~IsOk(rs) THEN rs ELSE IF ~Truthy(rs.value) THEN Ok(<<>>) ELSE FromEntries(Iterate(rs.value))

FromMembership(loaded, has) == IF ~IsOk(has) THEN has ELSE IF ~has.value THEN Ok(<<>>) ELSE FromResultSet(Subscript(loaded, "result_set"))

\* if 'result_set' in result and result['result_set']: return [...] else: return []
ResultIdentifiers(loaded) == FromMembership(loaded, InValue("result_set", loaded))

FromLoaded(loaded) == IF ~IsOk(loaded) THEN loaded ELSE ResultIdentifiers(loaded.value)

FromDecoded(text) == IF ~IsOk(text) THEN text ELSE FromLoaded(json_loads(text.value))

\* the body of the try block, given what urlopen does
SearchTry(o) == IF o.kind # "response" THEN Raise(o.error) ELSE FromDecoded(Utf8Decode(o.body))

\* what search_pdb returns and what it prints
SearchReturn(value, printed) == [raised |-> NoError, value |-> value, printed |-> printed]

\* a search_pdb that catches the HTTPError only
SearchOutcomeHttpOnly(r) ==
    IF IsOk(r) THEN SearchReturn(r.value, None)
    ELSE IF r.raised.type = "HTTPError" THEN SearchReturn(<<>>, <<"Search failed: " \o r.raised.msg>>)
    ELSE [raised |-> r.raised, value |-> None, printed |-> None]

\* except urllib.error.HTTPError / except Exception
SearchOutcome(r) ==
    IF IsOk(r) THEN SearchReturn(r.value, None)
    ELSE IF r.raised.type = "HTTPError" THEN SearchReturn(<<>>, <<"Search failed: " \o r.raised.msg>>)
    ELSE SearchReturn(<<>>, <<"Search error: " \o r.raised.msg>>)

\* json.dumps(query_json)
SearchRequest(query_text, max_results) ==
    JsonDict(<<JsonItem("query", JsonDict(<<JsonItem("type", JsonStr("terminal")), JsonItem("service", JsonStr("text")), JsonItem("parameters", JsonDict(<<JsonItem("value", JsonStr(query_text))>>))>>)),
               JsonItem("return_type", JsonStr("entry")),
               JsonItem("request_options", JsonDict(<<JsonItem("paginate", JsonDict(<<JsonItem("start", "0"), JsonItem("rows", IntToStr(max_results))>>))>>))>>)

\* search_pdb(query_text, max_results), o being what urlopen does
search_pdb(query_text, max_results, o) == SearchOutcome(SearchTry(o))

\* ------------------------------------------------------------------------
\* SpecSearch: search_pdb against a server that answers with one of a few
\* bodies, well formed or not, with an HTTP error, or that cannot be reached
\* ------------------------------------------------------------------------

\* the byte of a character, the inverse of Chr
Ord(c) == CHOOSE b \in {10} \cup (32..95) \cup (97..126) : Chr(b) = c

EncodeAscii(text) == [i \in 1..Len(text) |-> Ord(CharAt(text, i))]

SearchTexts == {
    "{\"query_id\": \"q1\", \"result_type\": \"entry\", \"total_count\": 2, \"result_set\": [{\"identifier\": \"1UBQ\", \"score\": 1}, {\"identifier\": \"1D3Z\", \"score\": 0}]}",
    "{\"result_set\":[{\"identifier\":\"7BV2\"}]}",
    "{\"result_set\": [{\"identifier\": \"2JF5\"}, {\"identifier\": \"1UBQ\"}, {\"identifier\": \"2JF5\"}]}",
    "{\"result_set\": []}",
    "{\"result_set\": null}",
    "{\"total_count\": 0}",
    "[]",
    "",
    "<html>Bad Gateway</html>",
    "{\"result_set\": [{\"identifier\": \"1UBQ\"}, {\"score\": 1}]}",
    "{\"result_set\": [{\"identifier\": \"1UBQ\"}",
    "{\"result_set\": [\"1UBQ\"]}",
    "{\"result_set\": {\"identifier\": \"1UBQ\"}}",
    "{\"result_set\": 3}",
    "[\"result_set\"]",
    "\"no result_set here\"",
    "7",
    "{\"result_set\": [{\"identifier\": \"1UBQ\"}]} trailing"}

SearchOutcomes == {Response(EncodeAscii(text)) : text \in SearchTexts} \cup {Response(<<123, 255, 125>>), HTTPError(400, "Bad Request"), HTTPError(404, "Not Found"), HTTPError(500, "Internal Server Error"), URLError("[Errno -2] Name or service not known")}

QueryTexts == {"ubiquitin", "SARS-CoV-2", "say \"hi\""}

ResultLimits == {10, 5}

\* search_pdb(query_text, max_results)
SearchPdb(query_text, max_results) ==
    \E o \in SearchOutcomes :
        /\ call' = [fn |-> "search_pdb", query_text |-> query_text, max_results |-> max_results, request |-> SearchRequest(query_text, max_results), outcome |-> o]
        /\ result' = search_pdb(query_text, max_results, o)
        /\ UNCHANGED <<viewerVars, last, calls>>

InitSearch ==
    /\ ViewerInit(DefaultWidth, DefaultHeight, None, FALSE)
    /\ calls = 0
    /\ call = None
    /\ result = None

NextSearch == \E query_text \in QueryTexts, max_results \in ResultLimits : SearchPdb(query_text, max_results)

SpecSearch == InitSearch /\ [][NextSearch]_vars

\* the identifiers of the well-formed answers, in the order of the answer
C11_Identifiers ==
    (EncodeAscii("{\"query_id\": \"q1\", \"result_type\": \"entry\", \"total_count\": 2, \"result_set\": [{\"identifier\": \"1UBQ\", \"score\": 1}, {\"identifier\": \"1D3Z\", \"score\": 0}]}") :> <<"1UBQ", "1D3Z">>)
    @@ (EncodeAscii("{\"result_set\":[{\"identifier\":\"7BV2\"}]}") :> <<"7BV2">>)
    @@ (EncodeAscii("{\"result_set\": [{\"identifier\": \"2JF5\"}, {\"identifier\": \"1UBQ\"}, {\"identifier\": \"2JF5\"}]}") :> <<"2JF5", "1UBQ", "2JF5">>)

C11_Succeeds == call.outcome.kind = "response" /\ call.outcome.body \in DOMAIN C11_Identifiers

C11_Returned == [i \in 1..Len(result.value) |-> result.value[i].v[1]]

\* C11: search_pdb never raises; it returns the identifiers of the result
\* set in the order of the answer when the answer is well formed, and the
\* empty list when the result set is absent or empty and on every failure
\* (an HTTP error, no connection, a body that is not UTF-8 or not JSON, a
\* JSON value of another shape).
C11_Search == call # None => result.raised = NoError /\ IF C11_Succeeds THEN C11_Returned = C11_Identifiers[call.outcome.body] ELSE result.value = <<>>

C11_Witness == call # None /\ call.outcome.kind = "response" /\ call.outcome.body = EncodeAscii("{\"result_set\": [{\"identifier\": \"1UBQ\"}, {\"score\": 1}]}") /\ result.value = <<>> /\ result.printed = <<"Search error: 'identifier'">>

\* ------------------------------------------------------------------------
\* colors.py: hex_to_rgb, rgb_to_hex, interpolate_color, generate_gradient.
\* The code blends in Python floats (IEEE 754 binary64, round to nearest,
\* ties to even).  A non-negative float is held as its integer part and the
\* bits of its fraction, most significant first; every operation computes
\* the exact result and rounds it to MantissaBits significant bits.
\* ------------------------------------------------------------------------

\* the significant bits of a binary64
MantissaBits == 53

\* quotient bits computed by a division: enough to hold the rounding bit of any quotient of two ints below 1024
DivideBits == MantissaBits + 11

\* the bits multiplied at a time: a limb times a factor below 2^14 stays below 2^31
LimbBits == 16

Fx(n, frac) == [int |-> n, frac |-> frac]

\* the number of bits of a positive int
BitLen(n) == IF n = 0 THEN 0 ELSE CHOOSE k \in 1..30 : 2^(k - 1) <= n /\ n < 2^k

LeadingZeros(frac) == IF \A j \in 1..Len(frac) : frac[j] = 0 THEN Len(frac) ELSE (CHOOSE j \in 1..Len(frac) : frac[j] = 1 /\ \A k \in 1..(j - 1) : frac[k] = 0) - 1

\* how many bits of the fraction a binary64 keeps
Kept(x) == IF x.int > 0 THEN MantissaBits - BitLen(x.int) ELSE LeadingZeros(x.frac) + MantissaBits

\* round to nearest, ties to even: the first bit dropped is 1, and a later one or the last one kept is 1
RoundsUp(x, k) == x.frac[k + 1] = 1 /\ ((\E j \in (k + 2)..Len(x.frac) : x.frac[j] = 1) \/ (IF k = 0 THEN x.int % 2 = 1 ELSE x.frac[k] = 1))

\* n.bits plus one unit in the last place of bits
Increment(n, bits) ==
    IF \A j \in 1..Len(bits) : bits[j] = 1 THEN Fx(n + 1, <<>>)
    ELSE Fx(n, [j \in 1..Len(bits) |-> IF j < (CHOOSE z \in 1..Len(bits) : bits[z] = 0 /\ \A k \in (z + 1)..Len(bits) : bits[k] = 1) THEN bits[j] ELSE IF bits[j] = 0 THEN 1 ELSE 0])

RoundTo(x, k) == IF Len(x.frac) <= k THEN x ELSE IF RoundsUp(x, k) THEN Increment(x.int, SubSeq(x.frac, 1, k)) ELSE Fx(x.int, SubSeq(x.frac, 1, k))

\* the binary64 nearest to x
RoundDouble(x) == RoundTo(x, Kept(x))

\* 2^e modulo d
RECURSIVE PowMod2(_, _)
PowMod2(e, d) == IF e = 0 THEN 1 % d ELSE IF e % 2 = 1 THEN (2 * PowMod2(e - 1, d)) % d ELSE (PowMod2(e \div 2, d) * PowMod2(e \div 2, d)) % d

\* what is left of rem / d after n bits, rem < d
DivRem(rem, d, n) == (rem * PowMod2(n, d)) % d

\* the first n bits of rem / d, rem < d
DivBits(rem, d, n) == [j \in 1..n |-> (2 * DivRem(rem, d, j - 1)) \div d]

\* i / d for ints i >= 0, d > 0: a bit after the computed ones stands for a remainder
FloatDiv(i, d) == RoundDouble(Fx(i \div d, DivBits(i % d, d, DivideBits) \o (IF DivRem(i % d, d, DivideBits) # 0 THEN <<1>> ELSE <<>>)))

\* the int whose bits are bits
RECURSIVE BitsValue(_)
BitsValue(bits) == IF bits = <<>> THEN 0 ELSE IF Len(bits) = 1 THEN bits[1] ELSE BitsValue(Left(bits)) * 2^Len(Right(bits)) + BitsValue(Right(bits))

\* the low n bits of v and what is above them
MulLimb(v, n) == [carry |-> v \div 2^n, bits |-> [j \in 1..n |-> (v \div 2^(n - j)) % 2]]

MulCat(high, low) == [carry |-> high.carry, bits |-> high.bits \o low.bits]

\* bits * k + cin, bits being the bits of an int, LimbBits bits at a time from the last: the product's low bits and what it carries out
RECURSIVE MulBits(_, _, _)
MulJoin(high, k, low) == MulCat(MulBits(high, k, low.carry), low)

MulBits(bits, k, cin) ==
    IF Len(bits) <= LimbBits THEN MulLimb(BitsValue(bits) * k + cin, Len(bits))
    ELSE MulJoin(SubSeq(bits, 1, Len(bits) - LimbBits), k, MulBits(SubSeq(bits, Len(bits) - LimbBits + 1, Len(bits)), k, cin))

MulFx(n, k, product) == Fx(n * k + product.carry, product.bits)

\* x * k for a float x >= 0 and an int k >= 0
FloatMul(x, k) == RoundDouble(MulFx(x.int, k, MulBits(x.frac, k, 0)))

\* 1 - 0.frac, frac holding a 1: the bits before its last 1 are inverted
Complement(frac) == [j \in 1..Len(frac) |-> IF j < (CHOOSE z \in 1..Len(frac) : frac[z] = 1 /\ \A k \in (z + 1)..Len(frac) : frac[k] = 0) THEN 1 - frac[j] ELSE frac[j]]

\* a + x and a - x for an int a >= 0 and a float x, 0 <= x <= a in the second
FloatAdd(a, x) == RoundDouble(Fx(a + x.int, x.frac))

FloatSub(a, x) == RoundDouble(IF \A j \in 1..Len(x.frac) : x.frac[j] = 0 THEN Fx(a - x.int, <<>>) ELSE Fx(a - x.int - 1, Complement(x.frac)))

\* hex_color.lstrip('#')
LStripHash(s) == IF \A j \in 1..Len(s) : CharAt(s, j) = "#" THEN "" ELSE SubSeq(s, CHOOSE j \in 1..Len(s) : CharAt(s, j) # "#" /\ \A k \in 1..(j - 1) : CharAt(s, k) = "#", Len(s))

\* s[a:b] for 0 <= a <= b
Slice(s, a, b) == SubSeq(s, Min(a, Len(s)) + 1, Min(b, Len(s)))

RgbOf(r, g, b) == IF ~IsOk(r) THEN r ELSE IF ~IsOk(g) THEN g ELSE IF ~IsOk(b) THEN b ELSE Ok(<<r.value, g.value, b.value>>)

\* hex_to_rgb(hex_color)
hex_to_rgb(hex_color) == RgbOf(IntBase16(Slice(LStripHash(hex_color), 0, 2)), IntBase16(Slice(LStripHash(hex_color), 2, 4)), IntBase16(Slice(LStripHash(hex_color), 4, 6)))

\* f"{n:02x}".upper() for n in 0..255
HexByte(n) == Upper(CharAt(HexDigits, (n \div 16) + 1) \o CharAt(HexDigits, (n % 16) + 1))

\* rgb_to_hex(r, g, b)
rgb_to_hex(r, g, b) == "#" \o HexByte(r) \o HexByte(g) \o HexByte(b)

\* an interpolation that rounds the blend down in exact arithmetic: factor is num / den
BlendExact(c1, c2, num, den) == (c1 * den + num * (c2 - c1)) \div den

\* int(c1 + factor * (c2 - c1)), for channels c1, c2 in 0..255
Blend(c1, c2, factor) == IF c2 >= c1 THEN FloatAdd(c1, FloatMul(factor, c2 - c1)).int ELSE FloatSub(c1, FloatMul(factor, c1 - c2)).int

InterpolateRgb(rgb1, rgb2, factor) ==
    IF ~IsOk(rgb1) THEN rgb1
    ELSE IF ~IsOk(rgb2) THEN rgb2
    ELSE Ok(rgb_to_hex(Blend(rgb1.value[1], rgb2.value[1], factor), Blend(rgb1.value[2], rgb2.value[2], factor), Blend(rgb1.value[3], rgb2.value[3], factor)))

\* interpolate_color(color1, color2, factor)
interpolate_color(color1, color2, factor) == InterpolateRgb(hex_to_rgb(color1), hex_to_rgb(color2), factor)

\* the body of the loop, position being i / (steps - 1) * segment_count
GradientAt(colors, position) ==
    IF position.int >= Len(colors) - 1 THEN Ok(colors[Len(colors)])
    ELSE interpolate_color(colors[position.int + 1], colors[position.int + 2], Fx(0, position.frac))

GradientStep(colors, steps, i) == GradientAt(colors, FloatMul(FloatDiv(i, steps - 1), Len(colors) - 1))

\* the loop: the first step that raises ends it
GradientLoop(colors, steps) ==
    IF \E i \in 0..(steps - 1) : ~IsOk(GradientStep(colors, steps, i))
    THEN GradientStep(colors, steps, CHOOSE i \in 0..(steps - 1) : ~IsOk(GradientStep(colors, steps, i)) /\ \A j \in 0..(i - 1) : IsOk(GradientStep(colors, steps, j)))
    ELSE Ok([k \in 1..steps |-> GradientStep(colors, steps, k - 1).value])

\* generate_gradient(colors, steps)
generate_gradient(colors, steps) ==
    IF steps <= 0 THEN Ok(<<>>)
    ELSE IF steps = 1 THEN (IF colors = <<>> THEN Raise(Exc("IndexError", "list index out of range")) ELSE Ok(<<colors[1]>>))
    ELSE IF Len(colors) = 0 THEN Ok(<<>>)
    ELSE IF Len(colors) = 1 THEN Ok([k \in 1..steps |-> colors[1]])
    ELSE GradientLoop(colors, steps)

\* ------------------------------------------------------------------------
\* SpecGradient: generate_gradient on every list of up to MaxColors colours
\* and every step count up to MaxSteps, called, and called once more
\* ------------------------------------------------------------------------

MaxColors == 3

MaxSteps == 4

GradientColors == {"#000000", "#FFFFFF", "#030303", "#3e4989"}

RECURSIVE ColorLists(_)
ColorLists(n) == IF n = 0 THEN {<<>>} ELSE ColorLists(n - 1) \cup {Append(l, c) : l \in ColorLists(n - 1), c \in GradientColors}

\* generate_gradient(colors, steps)
GenerateGradient ==
    /\ result = None
    /\ result' = generate_gradient(call.colors, call.steps)
    /\ UNCHANGED <<viewerVars, last, calls, call>>

\* generate_gradient(colors, steps), a second time
GenerateAgain ==
    /\ result # None
    /\ calls = 0
    /\ calls' = 1
    /\ result' = generate_gradient(call.colors, call.steps)
    /\ UNCHANGED <<viewerVars, last, call>>

InitGradient ==
    /\ ViewerInit(DefaultWidth, DefaultHeight, None, FALSE)
    /\ calls = 0
    /\ call \in {[fn |-> "generate_gradient", colors |-> colors, steps |-> steps] : colors \in ColorLists(MaxColors), steps \in -1..MaxSteps}
    /\ result = None

NextGradient ==
    \/ GenerateGradient
    \/ GenerateAgain

SpecGradient == InitGradient /\ [][NextGradient]_vars

\* the channels the gradient has at step i when the blend is exact: i * segment_count / (steps - 1) is the segment and the place in it
C12_Channel(c1, c2, colors, steps, i) == IF (i * (Len(colors) - 1)) \div (steps - 1) >= Len(colors) - 1 THEN c2 ELSE BlendExact(c1, c2, (i * (Len(colors) - 1)) % (steps - 1), steps - 1)

C12_From(colors, steps, i) == hex_to_rgb(colors[Min((i * (Len(colors) - 1)) \div (steps - 1) + 1, Len(colors))]).value

C12_To(colors, steps, i) == hex_to_rgb(colors[Min((i * (Len(colors) - 1)) \div (steps - 1) + 2, Len(colors))]).value

C12_Expected(colors, steps, i) == [ch \in 1..3 |-> C12_Channel(C12_From(colors, steps, i)[ch], C12_To(colors, steps, i)[ch], colors, steps, i)]

C12_Applies == result # None /\ Len(call.colors) >= 2 /\ call.steps >= 2

\* C12, as stated: for N >= 2 colours and S >= 2 steps generate_gradient returns
\* exactly S colours, the first the first input colour, the last the last input
\* colour, and each one between them the per-channel linear blend of its
\* segment's two endpoints with the fractional part cut off.  Colours are
\* compared by their channels, so that the case of the hex digits is no matter.
C12_Gradient ==
    C12_Applies =>
        /\ IsOk(result)
        /\ Len(result.value) = call.steps
        /\ hex_to_rgb(result.value[1]) = hex_to_rgb(call.colors[1])
        /\ hex_to_rgb(result.value[call.steps]) = hex_to_rgb(call.colors[Len(call.colors)])
        /\ \A i \in 0..(call.steps - 1) : hex_to_rgb(result.value[i + 1]) = Ok(C12_Expected(call.colors, call.steps, i))

\* what of C12 the code does keep: S colours, the two ends, and the stated example
C12_Ends ==
    C12_Applies =>
        /\ IsOk(result)
        /\ Len(result.value) = call.steps
        /\ hex_to_rgb(result.value[1]) = hex_to_rgb(call.colors[1])
        /\ result.value[call.steps] = call.colors[Len(call.colors)]
        /\ (call.colors = <<"#000000", "#FFFFFF">> /\ call.steps = 3 => result.value = <<"#000000", "#7F7F7F", "#FFFFFF">>)

\* and the same inputs give the same output
C12_Same == [][result # None => result' = result]_vars

\* the float blend falls below the exact one: a third of the way from #000000 to #030303
C12_Diverges ==
    /\ calls = 1
    /\ call.colors = <<"#FFFFFF", "#000000", "#030303">>
    /\ call.steps = 4
    /\ C12_Expected(call.colors, call.steps, 2) = <<1, 1, 1>>
    /\ result.value[3] = "#000000"

\* C13, as stated: generate_gradient handles its edge cases without failing, for
\* every N and S: S <= 0 gives an empty result; N = 0 gives an empty result for
\* every S, S = 1 included; S = 1 with N >= 1 gives the first colour only;
\* N = 1 gives that colour S times.
C13_EdgeCases ==
    result # None =>
        /\ call.steps <= 0 => result = Ok(<<>>)
        /\ Len(call.colors) = 0 => result = Ok(<<>>)
        /\ call.steps = 1 /\ Len(call.colors) >= 1 => result = Ok(<<call.colors[1]>>)
        /\ call.steps >= 1 /\ Len(call.colors) = 1 => result = Ok([k \in 1..call.steps |-> call.colors[1]])

\* what the code does: the same, but one step of no colours raises
C13_Code ==
    result # None =>
        /\ call.steps <= 0 => result = Ok(<<>>)
        /\ Len(call.colors) = 0 /\ call.steps # 1 => result = Ok(<<>>)
        /\ Len(call.colors) = 0 /\ call.steps = 1 => result = Raise(Exc("IndexError", "list index out of range"))
        /\ call.steps = 1 /\ Len(call.colors) >= 1 => result = Ok(<<call.colors[1]>>)
        /\ call.steps >= 1 /\ Len(call.colors) = 1 => result = Ok([k \in 1..call.steps |-> call.colors[1]])

C13_Raises == calls = 1 /\ call.colors = <<>> /\ call.steps = 1 /\ ~IsOk(result)

\* ------------------------------------------------------------------------
\* Spec: the structures of the viewer (C14)
\* ------------------------------------------------------------------------

C14_Fixed == UNCHANGED ctorVars /\ (grid_models = None <=> grid_models' = None)

C14_Grid ==
    viewergrid # None =>
        /\ grid_models # None
        /\ DOMAIN grid_models = 0..(rows - 1)
        /\ models = <<>>
        /\ current_model_index = -1
        /\ last.op = "_generate_html" =>
            /\ last.value.is_grid_mode = "true"
            /\ last.value.all_models = "[]"
            /\ last.value.rows = IntToStr(viewergrid[1]) /\ last.value.cols = IntToStr(viewergrid[2])
            /\ last.value.grid_data = JsonList([r \in 1..rows |-> JsonList([c \in 1..cols |-> JsonCell(grid_models[r - 1][c - 1])])])

C14_Linear ==
    viewergrid = None =>
        /\ grid_models = None
        /\ rows = None /\ cols = None
        /\ last.op = "_generate_html" =>
            /\ last.value.is_grid_mode = "false"
            /\ last.value.grid_data = "[[]]"
            /\ last.value.all_models = JsonList([i \in 1..Len(models) |-> JsonModel(models[i])])

SetterCall(op) == [op |-> op, mode |-> "", kwargs |-> NoKwargs, color |-> None, enabled |-> TRUE, opacity |-> DefaultSurfaceOpacity, inherit_color |-> TRUE, speed |-> DefaultSpinSpeed]

SetterColorCalls == {<<"custom", With(NoKwargs, "color", "#FF0000")>>, <<"element", NoKwargs>>, <<"custom", With(NoKwargs, "color", "#GG0000")>>, <<"secondary", With(NoKwargs, "coil_color", "red")>>, <<"rainbow", With(NoKwargs, "palette", "nonexistent")>>}

SetterBackgrounds == {"#000000", "#GG0000"}

\* setSurface(enabled, opacity, inherit_color, color)
SetterSurfaceCalls == {<<TRUE, 40, TRUE, None>>, <<TRUE, 60, FALSE, <<"#00FF00">>>>}

SetterCalls ==
    {[SetterCall("setColorMode") EXCEPT !.mode = cc[1], !.kwargs = cc[2]] : cc \in SetterColorCalls}
    \cup {[SetterCall("setBackgroundColor") EXCEPT !.color = <<c>>] : c \in SetterBackgrounds}
    \cup {[SetterCall("setSurface") EXCEPT !.enabled = c[1], !.opacity = c[2], !.inherit_color = c[3], !.color = c[4]] : c \in SetterSurfaceCalls}
    \cup {SetterCall("setIllustrativeStyle")}
    \cup {[SetterCall("spin") EXCEPT !.speed = 10]}
    \cup {SetterCall("removeSolvent")}

\* two calls of different setters, after nothing or after one more call
SetterPlans == {p \in {<<a, b>> : a \in SetterCalls, b \in SetterCalls} : p[1].op # p[2].op} \cup {p \in {<<before, a, b>> : before \in SetterCalls, a \in SetterCalls, b \in SetterCalls} : p[2].op # p[3].op}

Exchanged(plan) == [i \in 1..Len(plan) |-> IF i = Len(plan) THEN plan[Len(plan) - 1] ELSE IF i = Len(plan) - 1 THEN plan[Len(plan)] ELSE plan[i]]

\* the calls to make on the viewer at hand: the plan on the first, the plan exchanged on the second
Plan == IF result = None THEN call ELSE Exchanged(call)

\* the next call of the plan is a call of op
Planned(op) == calls < Len(Plan) /\ Plan[calls + 1].op = op /\ calls' = calls + 1

Due == Plan[calls + 1]

\* the viewer is rendered when the plan is done
Rendering == calls = Len(Plan) /\ calls' = calls + 1

\* the configuration of the viewer
Configuration == [color_mode |-> color_mode, color_params |-> color_params, background_color |-> background_color, surface_enabled |-> surface_enabled, surface_opacity |-> surface_opacity, illustrative_enabled |-> illustrative_enabled, spin_enabled |-> spin_enabled, spin_speed |-> spin_speed, remove_solvent |-> remove_solvent]

\* the first viewer and its render are kept, and MolView() constructs the second
NewViewer ==
    /\ result = None
    /\ calls = Len(call) + 1
    /\ result' = [config |-> Configuration, html |-> last.value]
    /\ calls' = 0
    /\ width' = DefaultWidth /\ height' = DefaultHeight /\ viewergrid' = None /\ panel' = FALSE
    /\ rows' = None /\ cols' = None /\ total_viewers' = 1 /\ grid_models' = None
    /\ models' = <<>> /\ current_model_index' = -1
    /\ color_mode' = "element" /\ color_params' = NoParams /\ background_color' = "#FFFFFF"
    /\ surface_enabled' = FALSE /\ surface_opacity' = DefaultSurfaceOpacity /\ illustrative_enabled' = FALSE
    /\ spin_enabled' = FALSE /\ spin_speed' = DefaultSpinSpeed
    /\ show_sequence' = FALSE /\ show_animation' = FALSE /\ remove_solvent' = FALSE
    /\ style_settings' = [cartoon |-> TRUE, stick |-> FALSE, sphere |-> FALSE, line |-> FALSE]
    /\ last' = NoCall
    /\ UNCHANGED call

InitSetters ==
    /\ ViewerInit(DefaultWidth, DefaultHeight, None, FALSE)
    /\ calls = 0
    /\ call \in SetterPlans
    /\ result = None

NextSetters ==
    \/ Planned("setColorMode") /\ SetColorMode(Due.mode, Due.kwargs)
    \/ Planned("setBackgroundColor") /\ SetBackgroundColor(Due.color[1])
    \/ Planned("setSurface") /\ SetSurface(Due.enabled, Due.opacity, Due.inherit_color, Due.color)
    \/ Planned("setIllustrativeStyle") /\ SetIllustrativeStyle(Due.enabled)
    \/ Planned("spin") /\ Spin(Due.enabled, Due.speed)
    \/ Planned("removeSolvent") /\ RemoveSolvent(Due.enabled)
    \/ Rendering /\ GenerateHtml
    \/ NewViewer

SpecSetters == InitSetters /\ [][NextSetters]_vars

\* the call made last on the viewer, when it is a call of the plan
C15_Made == Plan[calls]

C15_IsCall == 1 <= calls /\ calls <= Len(Plan)

\* the setColorMode calls of the plans whose colour is not a hex number
C15_Malformed == {<<"custom", With(NoKwargs, "color", "#GG0000")>>, <<"secondary", With(NoKwargs, "coil_color", "red")>>}

C15_SetterFails ==
    C15_IsCall /\ C15_Made.op = "setColorMode" /\ <<C15_Made.mode, C15_Made.kwargs>> \in C15_Malformed =>
        last.op = "setColorMode" /\ last.raised.type = "ValueError" /\ StartsWith(last.raised.msg, "invalid literal for int() with base 16: ")

C15_BackgroundStored ==
    C15_IsCall /\ C15_Made.op = "setBackgroundColor" =>
        last = Returned("setBackgroundColor", Self) /\ background_color = C15_Made.color[1]

C15_RenderSucceeds ==
    calls = Len(Plan) + 1 =>
        last.op = "_generate_html" /\ last.raised = NoError /\ last.value.background_color = background_color

\* a call that raises is a setter's, and it leaves the viewer as it was
C15_Synchronous == last'.raised # NoError => last'.op \in {"setColorMode"} /\ UNCHANGED viewerVars

C16_Done == result # None /\ calls = Len(call) + 1

C16_Pair == {call[Len(call) - 1], call[Len(call)]}

\* the two calls are a setColorMode that succeeds and a setSurface with a colour of its own
C16_Clash == \E c \in C16_Pair, d \in C16_Pair : c.op = "setColorMode" /\ IsOk(get_color_theme(c.mode, c.kwargs)) /\ IsOk(to_molstar_config(get_color_theme(c.mode, c.kwargs).value)) /\ d.op = "setSurface" /\ ~d.inherit_color /\ d.color # None

\* C16, as stated: two calls of different setters among setColorMode,
\* setBackgroundColor, setSurface (a surface colour of its own with
\* inherit_color false included), setIllustrativeStyle, spin and removeSolvent
\* give the same final state, and so the same render payload, in either order
\* from the same viewer state.
C16_OrderIndependent == C16_Done => Configuration = result.config /\ last.value = result.html

\* what the code keeps: the order matters for no other two calls
C16_Commute == C16_Done /\ ~C16_Clash => Configuration = result.config /\ last.value = result.html

\* setColorMode then setSurface keeps the surface colour, setSurface then setColorMode loses it
C16_Lost ==
    /\ C16_Done
    /\ Len(call) = 2
    /\ call[1].op = "setColorMode" /\ call[1].mode = "custom" /\ call[1].kwargs.color = <<"#FF0000">>
    /\ call[2].op = "setSurface" /\ call[2].color = <<"#00FF00">>
    /\ result.config.color_params.surface_color = <<"#00FF00">>
    /\ color_params.surface_color = <<>>
    /\ color_params.value = result.config.color_params.value
    /\ last.value.color_params # result.html.color_params

\* ------------------------------------------------------------------------
\* Spec: the structures a viewer holds (C17)
\* ------------------------------------------------------------------------

\* every structure of the list is still there, as it was and where it was
C17_ListKept == Len(models') >= Len(models) /\ SubSeq(models', 1, Len(models)) = models

\* every structure of the grid is still there, as it was and where it was
C17_GridKept == viewergrid # None => \A p \in Occupied : grid_models'[p[1]][p[2]] = grid_models[p[1]][p[2]]

C17_Clears == {"clear", "removeAllModels"}

\* C17, as stated: a structure, once added, is never mutated, and is removed
\* only by clear: in linear and in grid mode no addModel, with or without a
\* placement, and no setter removes or replaces a structure stored before.
C17_Structures == [][last'.op \notin C17_Clears => C17_ListKept /\ C17_GridKept]_vars

\* what the code keeps: only an addModel placed on a cell replaces a structure
C17_Code == [][(last'.op \notin C17_Clears => C17_ListKept) /\ (last'.op # "addModel" => C17_GridKept)]_vars

\* both cells are full after three calls, the last an addModel placed on cell (0,1), which held a structure before it
C17_Replaced ==
    /\ viewergrid # None
    /\ calls = 3
    /\ last = Returned("addModel", Self)
    /\ Occupied = Cells
    /\ grid_models[0][0].name = "Structure 1"
    /\ grid_models[0][1].name = "Structure (0,1)"

\* ------------------------------------------------------------------------
\* SpecStructures: a linear viewer, a 1x2 and a 2x1 grid viewer; structures of
\* two formats are added, named or not, placed or not; the viewer is cleared,
\* configured and rendered
\* ------------------------------------------------------------------------

StructureGrids == {None, <<1, 2>>, <<2, 1>>}

\* addModel(data, format, viewer=viewer, name=name): the format of one text is given, that of the other detected
StructureData == {[data |-> SamplePdb, format |-> <<"PDB">>], [data |-> SampleCif, format |-> None]}

StructureCalls == {[data |-> d.data, format |-> d.format, viewer |-> v, name |-> n] : d \in StructureData, v \in {None, <<0, 1>>, <<1, 0>>}, n \in {None, <<"Wild Type">>}}

InitStructures ==
    /\ \E grid \in StructureGrids : ViewerInit(DefaultWidth, DefaultHeight, grid, FALSE)
    /\ calls = 0
    /\ call = None
    /\ result = None

NextStructures ==
    \/ UNCHANGED calls /\ \E c \in StructureCalls : AddModel(c.data, c.format, FALSE, c.viewer, c.name)
    \/ UNCHANGED calls /\ Clear
    \/ UNCHANGED calls /\ RemoveAllModels
    \/ UNCHANGED calls /\ SetColorMode("custom", With(NoKwargs, "color", "#FF0000"))
    \/ UNCHANGED calls /\ SetSurface(TRUE, 60, FALSE, <<"#00FF00">>)
    \/ UNCHANGED calls /\ SetIllustrativeStyle(TRUE)
    \/ UNCHANGED calls /\ GenerateHtml

SpecStructures == InitStructures /\ [][NextStructures]_vars

C18_Index == viewergrid = None => current_model_index = Len(models) - 1

C18_Format == (SamplePdb :> "pdb") @@ (SampleCif :> "mmcif")

C18_Appends ==
    \A c \in StructureCalls : viewergrid = None /\ last'.op = "addModel" /\ AddModel(c.data, c.format, FALSE, c.viewer, c.name) =>
        /\ last'.raised = NoError
        /\ Len(models') = Len(models) + 1
        /\ SubSeq(models', 1, Len(models)) = models
        /\ models'[Len(models')].data = c.data
        /\ models'[Len(models')].format = C18_Format[c.data]

C18_Render ==
    viewergrid = None /\ last.op = "_generate_html" =>
        /\ last.value.structure_data = (IF models = <<>> THEN "" ELSE EscapeJs(models[Len(models)].data))
        /\ last.value.structure_format = (IF models = <<>> THEN "pdb" ELSE models[Len(models)].format)
        /\ last.value.all_models = JsonList([i \in 1..Len(models) |-> JsonModel(models[i])])

\* C18: in linear mode, after any addModel, clear and setter calls, the active
\* index is the number of structures less one, -1 exactly when there is none;
\* addModel appends, keeping the earlier structures in order, so that the
\* render's active structure is the one added last and all_models lists the
\* structures in the order they were added.
C18_Linear == [](C18_Index /\ C18_Render) /\ [][C18_Appends]_vars

C18_Witness ==
    /\ viewergrid = None
    /\ Len(models) = 2
    /\ models[1].data = SampleCif /\ models[2].data = SamplePdb
    /\ current_model_index = 1
    /\ color_mode = "uniform"
    /\ last.op = "_generate_html"
    /\ last.value.structure_format = "pdb"
    /\ last.value.structure_data = "ATOM      1  N   ALA A   1\\nATOM      2  CA  ALA A   1\\nEND"
    /\ StartsWith(last.value.all_models, "[{\"name\": \"Structure 1\", \"data\": \"data_1UBQ")

\* ------------------------------------------------------------------------
\* SpecStructures: the names of the structures (C19)
\* ------------------------------------------------------------------------

C19_Number == <<"1", "2", "3", "4", "5">>

C19_Digit == (0 :> "0") @@ (1 :> "1") @@ (2 :> "2")

C19_CellName(p) == "Structure (" \o C19_Digit[p[1]] \o "," \o C19_Digit[p[2]] \o ")"

\* the cell that receives the structure: the one given, or the first free one in row-major order
C19_Cell(c) == IF c.viewer # None THEN c.viewer ELSE CHOOSE p \in Cells \ Occupied : \A q \in Cells \ Occupied : RowMajorLeq(p, q)

\* the name the structure added by the step has
C19_Name(c) == IF viewergrid = None THEN models'[Len(models')].name ELSE grid_models'[C19_Cell(c)[1]][C19_Cell(c)[2]].name

C19_Added(c) == last'.op = "addModel" /\ last'.raised = NoError /\ AddModel(c.data, c.format, FALSE, c.viewer, c.name)

C19_Default(c) ==
    IF viewergrid = None THEN "Structure " \o C19_Number[Len(models')]
    ELSE IF c.viewer # None THEN C19_CellName(c.viewer)
    ELSE "Structure " \o C19_Number[Cardinality(Occupied) + 1]

\* C19, amended: a structure added without a name is named 'Structure k' in
\* linear mode, k its 1-based position in the list when added; in grid mode
\* 'Structure (row,col)' when the cell is given, and 'Structure n' when the
\* cell is auto-assigned, n being one more than the number of occupied cells.
\* A name given by the caller is stored as it is.
C19_Names == [][\A c \in StructureCalls : C19_Added(c) => C19_Name(c) = (IF c.name # None THEN c.name[1] ELSE C19_Default(c))]_vars

\* C19, as stated: in grid mode the default name is 'Structure (row,col)',
\* naming the cell that receives the structure, whether given or auto-assigned.
C19_CellNames == [][\A c \in StructureCalls : C19_Added(c) /\ c.name = None => C19_Name(c) = (IF viewergrid = None THEN "Structure " \o C19_Number[Len(models')] ELSE C19_CellName(C19_Cell(c)))]_vars

\* a 2x1 grid whose first cell was auto-assigned and whose second was given
C19_Witness ==
    /\ viewergrid = <<2, 1>>
    /\ Occupied = Cells
    /\ grid_models[0][0].name = "Structure 1"
    /\ grid_models[1][0].name = "Structure (1,0)"
    /\ last = Returned("addModel", Self)

\* ------------------------------------------------------------------------
\* SpecStructures: clear and removeAllModels (C20)
\* ------------------------------------------------------------------------

C20_Clears == {"clear", "removeAllModels"}

C20_Cleared ==
    last'.op \in C20_Clears =>
        /\ last'.raised = NoError
        /\ models' = <<>>
        /\ current_model_index' = -1
        /\ UNCHANGED <<color_mode, color_params, background_color, surface_enabled, surface_opacity, illustrative_enabled, spin_enabled, spin_speed, remove_solvent, style_settings, show_sequence, show_animation>>
        /\ UNCHANGED grid_models
        /\ (viewergrid # None => \A p \in Cells : (p \in Occupied)' <=> p \in Occupied)

\* on a full grid an addModel without a placement fails, after a clear as before it
C20_FullFails ==
    \A c \in StructureCalls : viewergrid # None /\ Occupied = Cells /\ c.viewer = None /\ last'.op = "addModel" /\ AddModel(c.data, c.format, FALSE, c.viewer, c.name) =>
        last'.raised.type = "ValueError" /\ StartsWith(last'.raised.msg, "Grid is full") /\ UNCHANGED grid_models

C20_Emptied ==
    /\ viewergrid = None
    /\ last.op = "removeAllModels"
    /\ models = <<>> /\ current_model_index = -1
    /\ color_params.surface_color = <<"#00FF00">>
    /\ illustrative_enabled

\* ------------------------------------------------------------------------
\* SpecScan: _detect_format applied to texts of a first line, some blank
\* lines, some other lines and a last line, the blank and the other lines
\* being none, a few, or about ScanLimit
\* ------------------------------------------------------------------------

ScanLasts == {"loop_", "  LOOP_", "_atom_site.id", "_cell.length_a 1", "hello", "ATOM      1"}

ScanBlanks == {"", "  "}

ScanCounts == {0, 1, ScanLimit - 2, ScanLimit - 1, ScanLimit}

Repeated(n, line) == [i \in 1..n |-> line]

\* the texts of at most ScanLimit + 3 lines
ScanTexts == {<<"x">> \o Repeated(n[1], blank) \o Repeated(n[2], "y") \o <<x>> : n \in {m \in ScanCounts \X ScanCounts : m[1] + m[2] <= ScanLimit + 1}, blank \in ScanBlanks, x \in ScanLasts}

InitScan ==
    /\ ViewerInit(DefaultWidth, DefaultHeight, None, FALSE)
    /\ calls = 0
    /\ call \in {[fn |-> "_detect_format", lines |-> lines, data |-> Join(lines, "\n")] : lines \in ScanTexts}
    /\ result = None

NextScan == DetectFormat

SpecScan == InitScan /\ [][NextScan]_vars

\* a line that starts, in any case and after any blanks, with one of the three mmCIF words
C21_CifLine(line) == \E w \in {"loop_", "_atom_site", "_cell"} : StartsWith(Lower(LStrip(line)), w)

\* how many of the first i lines are not blank
C21_NonBlanks(l, i) == Cardinality({j \in 1..i : \E k \in 1..Len(l[j]) : CharAt(l[j], k) # " "})

\* the mmCIF lines that are among the first ScanLimit lines, and among the first ScanLimit non-blank lines
C21_InLines(l) == {i \in 1..Len(l) : C21_CifLine(l[i]) /\ i <= ScanLimit}

C21_InNonBlankLines(l) == {i \in 1..Len(l) : C21_CifLine(l[i]) /\ C21_NonBlanks(l, i) <= ScanLimit}

\* C21, amended: the line scan covers the non-blank lines among the first 50
\* lines of the text (leading and trailing white space of the text removed):
\* a line starting with 'loop_', '_atom_site' or '_cell' makes the result
\* mmcif when it is one of the first 50 lines, blank ones counted, and such a
\* line occurring only after the 50th line does not by itself make the result
\* mmcif, however few non-blank lines precede it.
C21_Scan == result # None => (result.value = "mmcif" <=> C21_InLines(call.lines) # {})

\* C21, as stated: the scan covers the first 50 non-blank lines, however many
\* blank lines are interleaved.
C21_NonBlankScan == result # None => (result.value = "mmcif" <=> C21_InNonBlankLines(call.lines) # {})

\* a 'loop_' that is the second non-blank line and the 51st line is not seen
C21_Witness ==
    /\ result # None
    /\ call.lines = <<"x">> \o Repeated(ScanLimit - 1, "") \o <<"loop_">>
    /\ C21_NonBlanks(call.lines, Len(call.lines)) = 2
    /\ result.value = "pdb"

\* the same line one line earlier is seen
C21_Seen ==
    /\ result # None
    /\ call.lines = <<"x">> \o Repeated(ScanLimit - 2, "  ") \o <<"_cell.length_a 1">>
    /\ result.value = "mmcif"

\* ------------------------------------------------------------------------
\* SpecTheme: the custom theme (C22)
\* ------------------------------------------------------------------------

\* the colours the calls give that are hex numbers, none given included, and their values
C22_Colours == {<<>>, <<"#FF0000">>}

C22_Colour(given) == IF given = <<>> THEN "#4ECDC4" ELSE given[1]

C22_Value(given) == IF given = <<>> THEN 5164484 ELSE 16711680

\* the call resolved to the custom theme of the colour, whose configuration is uniform with the colour's value
C22_Resolved ==
    IF call.fn = "get_color_theme"
    THEN IsOk(result) /\ result.value.cls = "CustomColorTheme" /\ result.value.name = "custom" /\ result.value.color = <<C22_Colour(call.kwargs.color)>>
    ELSE IsOk(result) /\ result.value.name = "uniform" /\ result.value.params = [NoParams EXCEPT !.value = <<C22_Value(call.kwargs.color)>>]

C22_Rejected == call.fn = "get_color_theme" /\ result = Raise(Exc("ValueError", "Unknown color mode 'uniform'. Available: custom, element, residue, chain, secondary, rainbow, plddt"))

\* C22, amended: the mode name 'custom', in any case of its letters, resolves
\* to the custom theme, whose configuration is the uniform theme carrying the
\* given colour as its integer value, the fixed teal #4ECDC4 when no colour
\* is given; the mode name 'uniform' is not accepted: get_color_theme raises
\* ValueError 'Unknown color mode' for it.
C22_Custom ==
    call # None /\ call.kwargs.color \in C22_Colours =>
        /\ call.mode \in {"custom", "Custom"} => C22_Resolved
        /\ call.mode = "uniform" => C22_Rejected

\* C22, as stated: 'uniform' and 'custom' both resolve to the uniform theme
\* carrying the given colour, or the teal default.
C22_Both == call # None /\ call.kwargs.color \in C22_Colours /\ call.mode \in {"custom", "uniform"} => C22_Resolved

\* the configuration of 'Custom' with no colour carries the teal
C22_Witness ==
    /\ call # None
    /\ call.fn = "to_molstar_config"
    /\ call.mode = "Custom"
    /\ call.kwargs = NoKwargs
    /\ result.value.name = "uniform"
    /\ result.value.params.value = <<5164484>>

\* 'uniform' with a colour is refused
C22_Refused == call # None /\ call.mode = "uniform" /\ call.kwargs.color = <<"#FF0000">> /\ ~IsOk(result)

\* ------------------------------------------------------------------------
\* Spec: the opacity and the colour of the surface across calls (C23)
\* ------------------------------------------------------------------------

\* the setSurface calls that give no opacity: the parameter takes its default
C23_NoOpacity == {c \in SurfaceCalls : c[2] = DefaultSurfaceOpacity}

\* addSurface, and setSurface without an opacity, store the default opacity whatever was stored
C23_Resets ==
    /\ last'.op = "addSurface" => surface_opacity' = DefaultSurfaceOpacity /\ surface_enabled'
    /\ \A c \in C23_NoOpacity : last'.op = "setSurface" /\ SetSurface(c[1], c[2], c[3], c[4]) => surface_opacity' = DefaultSurfaceOpacity
    /\ last'.op \in {"setSurface", "addSurface"} => surface_opacity' \in {0, DefaultSurfaceOpacity, 100}

\* a surface call that inherits the colour, or gives none, leaves the theme parameters as they are
C23_Keeps ==
    /\ last'.op = "addSurface" => color_params' = color_params
    /\ \A c \in SurfaceCalls : last'.op = "setSurface" /\ SetSurface(c[1], c[2], c[3], c[4]) =>
           color_params' = IF c[3] \/ c[4] = None THEN color_params ELSE [color_params EXCEPT !.surface_color = c[4]]

\* a stored surface colour goes only with a setColorMode that succeeds, and goes with every one
C23_Discards ==
    /\ color_params.surface_color # None /\ color_params'.surface_color # color_params.surface_color =>
           last'.op = "setColorMode" /\ last'.raised = NoError /\ color_params'.surface_color = None
    /\ last'.op = "setColorMode" /\ last'.raised = NoError => color_params'.surface_color = None
    /\ last'.op = "setColorMode" /\ last'.raised # NoError => color_params' = color_params

\* C23: setSurface stores an opacity on every call, so addSurface and a
\* setSurface without an opacity put the default 40 in the place of an
\* opacity configured before; a surface colour stored by
\* setSurface(inherit_color=False, color=c) stays in the theme parameters
\* across later setSurface and addSurface calls, inherit_color=True
\* included, until a setColorMode that succeeds replaces the parameters.
C23_Surface == [][C23_Resets /\ C23_Keeps /\ C23_Discards]_vars

\* the colour stored with opacity -10 (0) is there after addSurface, and the opacity is 40
C23_Witness ==
    /\ last.op = "addSurface"
    /\ color_params.surface_color = <<"#00FF00">>
    /\ surface_opacity = DefaultSurfaceOpacity
    /\ calls = 2

\* the colour stored with opacity 0 is gone after a setColorMode that succeeded
C23_Discarded ==
    /\ last.op = "setColorMode"
    /\ last.raised = NoError
    /\ surface_opacity = 0
    /\ color_params.surface_color = None
    /\ calls = 2

\* and is there after one that failed
C23_Survived ==
    /\ last.op = "setColorMode"
    /\ last.raised # NoError
    /\ color_params.surface_color = <<"#00FF00">>

====
